---------------------------- MODULE Spec2Model ----------------------------
(***************************************************************************)
(* Verification model of the label-verification engine:                   *)
(*   src/lib/ocr-server.ts   singleton ServerOCRProcessor                  *)
(*   src/lib/ocr.ts          processOCR / processOCRFromURL deadline       *)
(*   src/lib/ocr-core.ts     bounding-box merge / dedup / transform        *)
(*   src/lib/textMatching.ts field matchers and compareFields              *)
(* Each subsystem has its own specification over the shared variables:     *)
(* the variables of the other subsystems stay at their idle values.        *)
(***************************************************************************)
EXTENDS Integers, Sequences, FiniteSets, TLC

VARIABLES
    \* ---- src/lib/ocr-server.ts, module state (lines 436-438)
    serverOCRInstance,      \* the published singleton, or NULL
    inFlightInit,           \* the promise of the running initialization, or NULL
    \* ---- promises and callers of getServerOCRProcessor
    initState,              \* per initialization (= per constructed instance): its promise state
    callState,              \* per caller: where its call stands and what it got
    initializeWorkerCalls,  \* number of ServerOCRProcessor.initializeWorker invocations
    resets,                 \* number of resetServerOCRProcessor invocations
    \* ---- one OCR request with its deadline (src/lib/ocr.ts, ocr-server.ts)
    req,
    \* ---- pure functions: arguments, results so far, position
    args,
    ret,
    pc,
    \* ---- the lastIndex of the shared global regular expressions
    \* VOLUME_ML_PATTERN, VOLUME_OZ_PATTERN, VOLUME_L_PATTERN (src/lib/constants.ts)
    lastIndex

vars == << serverOCRInstance, inFlightInit, initState, callState,
           initializeWorkerCalls, resets, req, args, ret, pc, lastIndex >>

singletonVars == << serverOCRInstance, inFlightInit, initState, callState,
                    initializeWorkerCalls, resets >>
fnVars == << args, ret, pc, lastIndex >>

\* JavaScript null in a slot that otherwise holds an instance or a promise
\* (instances and initializations are numbered from 1).
NULL == 0

(***************************************************************************)
(* Bounds of the model                                                     *)
(***************************************************************************)
NumCallers == 3     \* callers of getServerOCRProcessor
MaxInits == 3       \* ServerOCRProcessor instances that may be constructed
MaxResets == 1      \* calls of resetServerOCRProcessor
MaxTime == 11       \* minutes of wall-clock time observed

Callers == 1..NumCallers
InitIds == 1..MaxInits

(***************************************************************************)
(* Idle values: what a subsystem's variables hold in the specifications of *)
(* the other subsystems.                                                   *)
(***************************************************************************)
IdleSingleton ==
    /\ serverOCRInstance = NULL
    /\ inFlightInit = NULL
    /\ initState = [t \in InitIds |-> "none"]
    /\ callState = [c \in Callers |-> [pc |-> "idle", on |-> <<"none", NULL>>, value |-> NULL]]
    /\ initializeWorkerCalls = 0
    /\ resets = 0

IdleReq == req = [kind |-> "none"]

\* A regular expression literal starts with lastIndex 0.
IdleRegExp == lastIndex = [ml |-> 0, oz |-> 0, l |-> 0]

IdleFn ==
    /\ args = <<>>
    /\ ret = <<>>
    /\ pc = "none"
    /\ IdleRegExp

(***************************************************************************)
(* src/lib/ocr-server.ts: getServerOCRProcessor and its initialization     *)
(*                                                                         *)
(* JavaScript runs each function to its next await without interleaving,   *)
(* so one action is one such run.  An initialization is identified with   *)
(* the instance it constructs; its promise is what inFlightInit holds.    *)
(***************************************************************************)

\* A caller waits for what its call returned: an instance (already a value)
\* or the promise of initialization t.
Await(c, kind, what) ==
    callState' = [callState EXCEPT ![c] = [pc |-> "awaiting", on |-> <<kind, what>>, value |-> NULL]]

\* Mutant: the in-flight check of lines 451-453 is missing.
getServerOCRProcessor_NoInFlightCheck(c) ==
    /\ callState[c].pc = "idle"
    /\ IF serverOCRInstance # NULL
       THEN /\ Await(c, "value", serverOCRInstance)
            /\ UNCHANGED << serverOCRInstance, inFlightInit, initState, initializeWorkerCalls >>
       ELSE /\ initializeWorkerCalls < MaxInits
            /\ LET t == initializeWorkerCalls + 1 IN
                 /\ initState' = [initState EXCEPT ![t] = "pending"]
                 /\ initializeWorkerCalls' = t
                 /\ inFlightInit' = t
                 /\ Await(c, "promise", t)
            /\ UNCHANGED serverOCRInstance
    /\ UNCHANGED << resets, req, fnVars >>

\* getServerOCRProcessor up to its return (lines 444-475).  The async
\* function of lines 456-472 runs synchronously up to
\* `await instance.initializeWorker()`, so the constructor and the call of
\* initializeWorker are part of this step.
getServerOCRProcessor(c) ==
    /\ callState[c].pc = "idle"
    /\ IF serverOCRInstance # NULL
       THEN /\ Await(c, "value", serverOCRInstance)
            /\ UNCHANGED << serverOCRInstance, inFlightInit, initState, initializeWorkerCalls >>
       ELSE IF inFlightInit # NULL
       THEN /\ Await(c, "promise", inFlightInit)
            /\ UNCHANGED << serverOCRInstance, inFlightInit, initState, initializeWorkerCalls >>
       ELSE /\ initializeWorkerCalls < MaxInits
            /\ LET t == initializeWorkerCalls + 1 IN
                 /\ initState' = [initState EXCEPT ![t] = "pending"]
                 /\ initializeWorkerCalls' = t
                 /\ inFlightInit' = t
                 /\ Await(c, "promise", t)
            /\ UNCHANGED serverOCRInstance
    /\ UNCHANGED << resets, req, fnVars >>

\* Mutant: a failed initialization leaves the in-flight marker in place
\* (neither the catch of line 466 nor the finally of line 470 clears it).
InitSettles_KeepMarkerOnFailure(t, ok) ==
    /\ initState[t] = "pending"
    /\ IF ok
       THEN /\ serverOCRInstance' = t
            /\ initState' = [initState EXCEPT ![t] = "fulfilled"]
            /\ inFlightInit' = NULL
       ELSE /\ initState' = [initState EXCEPT ![t] = "rejected"]
            /\ UNCHANGED << serverOCRInstance, inFlightInit >>
    /\ UNCHANGED << callState, initializeWorkerCalls, resets, req, fnVars >>

\* The continuation of lines 459-471 once initializeWorker has settled:
\* on success the instance is published (462) and returned; on failure the
\* error is rethrown (467); the finally clause (470) clears the marker on
\* both paths, whatever it holds.
InitSettles(t, ok) ==
    /\ initState[t] = "pending"
    /\ IF ok
       THEN /\ serverOCRInstance' = t
            /\ initState' = [initState EXCEPT ![t] = "fulfilled"]
       ELSE /\ initState' = [initState EXCEPT ![t] = "rejected"]
            /\ UNCHANGED serverOCRInstance
    /\ inFlightInit' = NULL
    /\ UNCHANGED << callState, initializeWorkerCalls, resets, req, fnVars >>

InitializeWorkerSucceeds == \E t \in InitIds : InitSettles(t, TRUE)
InitializeWorkerFails == \E t \in InitIds : InitSettles(t, FALSE)

\* The caller's `await getServerOCRProcessor()` completes: with the instance,
\* or with the failure of the initialization it waited for.
CallSettles(c) ==
    /\ callState[c].pc = "awaiting"
    /\ LET on == callState[c].on IN
         IF on[1] = "value"
         THEN callState' = [callState EXCEPT ![c].pc = "resolved", ![c].value = on[2]]
         ELSE /\ initState[on[2]] \in {"fulfilled", "rejected"}
              /\ IF initState[on[2]] = "fulfilled"
                 THEN callState' = [callState EXCEPT ![c].pc = "resolved", ![c].value = on[2]]
                 ELSE callState' = [callState EXCEPT ![c].pc = "rejected"]
    /\ UNCHANGED << serverOCRInstance, inFlightInit, initState, initializeWorkerCalls,
                    resets, req, fnVars >>

\* resetServerOCRProcessor (lines 481-484)
resetServerOCRProcessor ==
    /\ resets < MaxResets
    /\ serverOCRInstance' = NULL
    /\ inFlightInit' = NULL
    /\ resets' = resets + 1
    /\ UNCHANGED << initState, callState, initializeWorkerCalls, req, fnVars >>

Call == \E c \in Callers : getServerOCRProcessor(c)
Settle == \E c \in Callers : CallSettles(c)

InitSingleton == IdleSingleton /\ IdleReq /\ IdleFn

NextSingleton ==
    \/ Call
    \/ InitializeWorkerSucceeds
    \/ InitializeWorkerFails
    \/ Settle
    \/ resetServerOCRProcessor

SpecSingleton == InitSingleton /\ [][NextSingleton]_vars


(***************************************************************************)
(* Claims about the singleton                                              *)
(***************************************************************************)
Resolved(c) == callState[c].pc = "resolved"
NoInitFailed == \A t \in InitIds : initState[t] # "rejected"

\* C2: as long as no initialization has failed and resetServerOCRProcessor
\* has not been called, initializeWorker has run exactly once as soon as
\* somebody has called getServerOCRProcessor, no call is rejected, and all
\* calls that have completed hold the same instance.
C2_OneInitOneInstance ==
    (resets = 0 /\ NoInitFailed) =>
        /\ initializeWorkerCalls <= 1
        /\ (\E c \in Callers : callState[c].pc # "idle") => initializeWorkerCalls = 1
        /\ \A c \in Callers : callState[c].pc # "rejected"
        /\ \A c \in Callers : Resolved(c) => callState[c].value = 1
        /\ \A c, d \in Callers : (Resolved(c) /\ Resolved(d)) => callState[c].value = callState[d].value

\* C2 witness: without reset or failure, two callers that waited for the
\* in-flight initialization and one that called after it was published all
\* hold the instance.
C2_Witness ==
    /\ resets = 0 /\ NoInitFailed
    /\ \A c \in Callers : Resolved(c)
    /\ \E c, d \in Callers : c # d /\ callState[c].on[1] = "promise" /\ callState[d].on[1] = "promise"
    /\ \E c \in Callers : callState[c].on[1] = "value"

\* C3 (state part): without reset, a caller that waits for a failed
\* initialization never gets an instance, as long as no initialization has
\* succeeded no instance is published, and the in-flight marker never names
\* a settled initialization (a failure clears it).
C3_NoPoisonState ==
    resets = 0 =>
        /\ \A c \in Callers :
              (callState[c].on[1] = "promise" /\ initState[callState[c].on[2]] = "rejected")
                  => (callState[c].pc \in {"awaiting", "rejected"} /\ callState[c].value = NULL)
        /\ (\A t \in InitIds : initState[t] # "fulfilled") => serverOCRInstance = NULL
        /\ inFlightInit # NULL => initState[inFlightInit] = "pending"

\* C3 (step part): without reset, a call made after a failed initialization,
\* while no instance is published and nothing is in flight, starts a fresh
\* initialization and waits for it.
C3_NextCallRetries ==
    \A c \in Callers :
        ( /\ resets = 0
          /\ callState[c].pc = "idle" /\ callState'[c].pc = "awaiting"
          /\ \E t \in InitIds : initState[t] = "rejected"
          /\ \A t \in InitIds : initState[t] \notin {"pending", "fulfilled"} )
        => /\ initializeWorkerCalls' = initializeWorkerCalls + 1
           /\ callState'[c].on = <<"promise", initializeWorkerCalls'>>
           /\ initState'[initializeWorkerCalls'] = "pending"
           /\ inFlightInit' = initializeWorkerCalls'

\* C3: a failed initialization reaches every caller waiting for it,
\* publishes nothing and clears the in-flight marker, so that the next call
\* starts a fresh initialization.
C3_FailureAllowsRetry == []C3_NoPoisonState /\ [][C3_NextCallRetries]_vars

\* C3 witness: the first initialization failed for the two callers waiting
\* for it, the retry of a third caller succeeded and gave it the instance.
C3_Witness ==
    /\ resets = 0
    /\ initState[1] = "rejected" /\ initState[2] = "fulfilled"
    /\ \E c, d, e \in Callers :
          /\ c # d
          /\ callState[c].pc = "rejected" /\ callState[d].pc = "rejected"
          /\ callState[c].on = <<"promise", 1>> /\ callState[d].on = <<"promise", 1>>
          /\ Resolved(e) /\ callState[e].on = <<"promise", 2>> /\ callState[e].value = 2
    /\ serverOCRInstance = 2


(***************************************************************************)
(* src/lib/ocr.ts: processOCR and processOCRFromURL;                       *)
(* src/lib/ocr-server.ts: processImageServerSide.                          *)
(*                                                                         *)
(* One request, from its call to the settling of the promise its caller    *)
(* holds.  Time is counted in minutes.  A timer that is due fires before   *)
(* more time passes.  The OCR engine is the environment: each of its steps *)
(* may succeed, fail, or not return at all.                                *)
(***************************************************************************)
ServerlessTimeoutMs == 240000
LocalTimeoutMs == 600000

\* timeoutMs (ocr.ts line 110)
TimeoutMs(isServerless) == IF isServerless THEN ServerlessTimeoutMs ELSE LocalTimeoutMs
TimeoutMinutes(isServerless) == TimeoutMs(isServerless) \div 60000

\* Error values, by their message.
\* ERROR_MESSAGES.OCR_FAILED (constants.ts line 489)
OCR_FAILED == << "Image processing failed" >>
\* the Error of the timer callback (ocr.ts lines 114-116)
TimeoutError(isServerless) ==
    << "OCR processing timed out after ", TimeoutMs(isServerless) \div 1000, " seconds" >>
\* what the engine or the worker setup throws
EngineError == << "engine error" >>
NoError == << >>

\* rotationAngles.length: SERVERLESS_ROTATION_ANGLES or ROTATION_ANGLES in
\* OCRProcessor (ocr-core.ts 12-15, 55), always ROTATION_ANGLES in
\* ServerOCRProcessor (ocr-server.ts 12, 126).
NumAngles(kind, isServerless) ==
    IF kind # "processImageServerSide" /\ isServerless THEN 2 ELSE 4

RequestKinds == {"processOCR", "processOCRFromURL", "processImageServerSide"}

\* The request as it is called.
NewRequest(kind, isServerless) ==
    [ kind |-> kind,
      isServerless |-> isServerless,
      now |-> 0,                 \* minutes since the call
      phase |-> "called",        \* position of the pipeline
      angleIdx |-> 0,            \* rotations recognized so far
      timer |-> "unset",         \* unset | armed | fired | cleared
      deadline |-> 0,            \* when the armed timer is due
      inner |-> "none",          \* the promise of processOCR
      innerError |-> NoError,
      outer |-> "pending",       \* the promise the caller holds
      outerError |-> NoError,
      worker |-> "none",         \* none | alive | terminated
      timedOut |-> FALSE,        \* the deadline expired before the pipeline finished
      failedBeforeDeadline |-> FALSE ]  \* the engine failed before the deadline expired

InitDeadline ==
    /\ IdleSingleton /\ IdleFn
    /\ \E kind \in RequestKinds, isServerless \in BOOLEAN : req = NewRequest(kind, isServerless)

\* resolve / reject of the promise of processOCR: only the first one counts.
\* The caller of processOCR holds this very promise.
SettleInner(r, state, err) ==
    IF r.inner # "pending" THEN r
    ELSE IF r.kind = "processOCR"
    THEN [r EXCEPT !.inner = state, !.innerError = err, !.outer = state, !.outerError = err]
    ELSE [r EXCEPT !.inner = state, !.innerError = err]

\* clearTimeout(timeoutId)
ClearTimeout(r) == IF r.timer = "armed" THEN [r EXCEPT !.timer = "cleared"] ELSE r

\* processOCR up to its first await (ocr.ts 98-151): the timer is set, then
\* the try block starts converting the input.
EnterProcessOCR(r) ==
    [r EXCEPT !.timer = "armed",
              !.deadline = r.now + TimeoutMinutes(r.isServerless),
              !.inner = "pending",
              !.phase = "convert"]

\* The call itself.
Start ==
    /\ req.phase = "called"
    /\ req' = CASE req.kind = "processOCR" -> EnterProcessOCR(req)
                [] req.kind = "processOCRFromURL" -> [req EXCEPT !.phase = "fetch"]
                [] req.kind = "processImageServerSide" -> [req EXCEPT !.phase = "getProcessor"]
    /\ UNCHANGED << singletonVars, fnVars >>

\* processOCRFromURL: fetch and blob succeeded, processOCR(blob) is called
\* (ocr.ts 182-186).
FetchOk ==
    /\ req.phase = "fetch"
    /\ req' = EnterProcessOCR(req)
    /\ UNCHANGED << singletonVars, fnVars >>

\* processOCRFromURL: fetch or blob threw (ocr.ts 187-190).
FetchFails ==
    /\ req.phase = "fetch"
    /\ req' = [req EXCEPT !.phase = "failed", !.outer = "rejected", !.outerError = OCR_FAILED]
    /\ UNCHANGED << singletonVars, fnVars >>

\* The catch block of processOCR (ocr.ts 165-169).
CatchInProcessOCR(r) ==
    LET r1 == [r EXCEPT !.phase = "failed",
                        !.failedBeforeDeadline = (r.timer = "armed")]
    IN SettleInner(ClearTimeout(r1), "rejected", OCR_FAILED)

\* processOCRFromURL after `await processOCR(blob)` (ocr.ts 186-190): the
\* result is returned, any error is replaced by OCR_FAILED.
OuterSettlesFromURL(r) ==
    IF r.inner = "resolved"
    THEN [r EXCEPT !.outer = "resolved"]
    ELSE [r EXCEPT !.outer = "rejected", !.outerError = OCR_FAILED]

OuterSettles ==
    /\ req.kind = "processOCRFromURL"
    /\ req.outer = "pending"
    /\ req.inner \in {"resolved", "rejected"}
    /\ req' = OuterSettlesFromURL(req)
    /\ UNCHANGED << singletonVars, fnVars >>

\* processOCR: the input is converted to a Buffer (ocr.ts 137-146).
ConvertOk ==
    /\ req.phase = "convert"
    /\ req' = [req EXCEPT !.phase = "createWorker"]
    /\ UNCHANGED << singletonVars, fnVars >>

ConvertFails ==
    /\ req.phase = "convert"
    /\ req' = CatchInProcessOCR(req)
    /\ UNCHANGED << singletonVars, fnVars >>

\* processOCR: createTesseractWorker (ocr.ts 151).
CreateWorkerOk ==
    /\ req.phase = "createWorker"
    /\ req' = [req EXCEPT !.phase = "recognize", !.worker = "alive"]
    /\ UNCHANGED << singletonVars, fnVars >>

CreateWorkerFails ==
    /\ req.phase = "createWorker"
    /\ req' = CatchInProcessOCR(req)
    /\ UNCHANGED << singletonVars, fnVars >>

\* processImageServerSide: await getServerOCRProcessor() (ocr-server.ts 492).
GetProcessorOk ==
    /\ req.phase = "getProcessor"
    /\ req' = [req EXCEPT !.phase = "recognize", !.worker = "alive"]
    /\ UNCHANGED << singletonVars, fnVars >>

GetProcessorFails ==
    /\ req.phase = "getProcessor"
    /\ req' = [req EXCEPT !.phase = "failed", !.outer = "rejected", !.outerError = EngineError]
    /\ UNCHANGED << singletonVars, fnVars >>

\* processWithRotations: one rotation is recognized; after the last one the
\* merged result is returned (ocr-core.ts 68-151, ocr-server.ts 126-230).
\* processOCR then terminates the worker (ocr.ts 161);
\* processImageServerSide returns the result (ocr-server.ts 493).
RecognizeOk ==
    /\ req.phase = "recognize"
    /\ LET r == [req EXCEPT !.angleIdx = req.angleIdx + 1] IN
         req' = IF r.angleIdx < NumAngles(req.kind, req.isServerless) THEN r
                ELSE IF req.kind = "processImageServerSide"
                THEN [r EXCEPT !.phase = "done", !.outer = "resolved"]
                ELSE [r EXCEPT !.phase = "terminate"]
    /\ UNCHANGED << singletonVars, fnVars >>

\* Image decoding or a recognition throws.
RecognizeFails ==
    /\ req.phase = "recognize"
    /\ req' = IF req.kind = "processImageServerSide"
              THEN [req EXCEPT !.phase = "failed", !.outer = "rejected", !.outerError = EngineError]
              ELSE CatchInProcessOCR(req)
    /\ UNCHANGED << singletonVars, fnVars >>

\* processOCR: worker.terminate() returned; clearTimeout; resolve (ocr.ts 161-164).
TerminateOk ==
    /\ req.phase = "terminate"
    /\ req' = SettleInner(ClearTimeout([req EXCEPT !.phase = "done", !.worker = "terminated"]),
                          "resolved", NoError)
    /\ UNCHANGED << singletonVars, fnVars >>

TerminateFails ==
    /\ req.phase = "terminate"
    /\ req' = CatchInProcessOCR(req)
    /\ UNCHANGED << singletonVars, fnVars >>

\* The callback of setTimeout (ocr.ts 113-117).
TimerCallback(r) ==
    SettleInner([r EXCEPT !.timer = "fired", !.timedOut = (r.inner = "pending")],
                "rejected", TimeoutError(r.isServerless))

TimerFires ==
    /\ req.timer = "armed"
    /\ req.now >= req.deadline
    /\ req' = TimerCallback(req)
    /\ UNCHANGED << singletonVars, fnVars >>

\* A minute passes since the call, unless a timer is due.
Tick ==
    /\ req.phase # "called"
    /\ req.now < MaxTime
    /\ ~(req.timer = "armed" /\ req.now >= req.deadline)
    /\ req' = [req EXCEPT !.now = req.now + 1]
    /\ UNCHANGED << singletonVars, fnVars >>

NextDeadline ==
    \/ Start
    \/ FetchOk
    \/ FetchFails
    \/ ConvertOk
    \/ ConvertFails
    \/ CreateWorkerOk
    \/ CreateWorkerFails
    \/ GetProcessorOk
    \/ GetProcessorFails
    \/ RecognizeOk
    \/ RecognizeFails
    \/ TerminateOk
    \/ TerminateFails
    \/ OuterSettles
    \/ TimerFires
    \/ Tick

SpecDeadline == InitDeadline /\ [][NextDeadline]_vars


(***************************************************************************)
(* Claims about the deadline                                               *)
(***************************************************************************)
CallerSettled == req.outer # "pending"

\* What C4 asks of one kind of request, once its caller's promise has
\* settled: an expired deadline shows as the timeout error, which is not the
\* engine-failure error, and an engine failure before the deadline shows as
\* the engine-failure error.
TimeoutDistinctFor(kind) ==
    (req.kind = kind /\ CallerSettled) =>
        /\ req.timedOut =>
              /\ req.outer = "rejected"
              /\ req.outerError = TimeoutError(req.isServerless)
              /\ req.outerError # OCR_FAILED
        /\ req.failedBeforeDeadline =>
              /\ req.outer = "rejected"
              /\ req.outerError = OCR_FAILED

\* C4: callers of processOCR and of processOCRFromURL can tell a timeout
\* from an engine failure.
C4_TimeoutDistinctFromFailure ==
    TimeoutDistinctFor("processOCR") /\ TimeoutDistinctFor("processOCRFromURL")

\* The part of C4 about processOCR alone.
C4_ProcessOCROnly == TimeoutDistinctFor("processOCR")

\* A caller of processOCR was rejected by the timer.
C4_ProcessOCRWitness ==
    /\ req.kind = "processOCR" /\ req.timedOut
    /\ req.outer = "rejected" /\ req.outerError = TimeoutError(req.isServerless)

\* What C5 asks of one kind of request: once more time has passed since the
\* call than the deadline allows (4 minutes when serverless, 10 otherwise),
\* a caller whose rotations are still being recognized is no longer waiting:
\* it has the timeout failure.
DeadlineBoundsFor(kind) ==
    (req.kind = kind /\ req.now > TimeoutMinutes(req.isServerless) /\ req.phase = "recognize") =>
        /\ CallerSettled
        /\ req.outer = "rejected"
        /\ req.outerError = TimeoutError(req.isServerless)

\* C5: processOCR and processImageServerSide are bounded by the deadline.
C5_DeadlineBoundsEveryRequest ==
    DeadlineBoundsFor("processOCR") /\ DeadlineBoundsFor("processImageServerSide")

\* The part of C5 about processOCR alone.
C5_ProcessOCROnly == DeadlineBoundsFor("processOCR")

\* A caller of processOCR has the timeout failure while a rotation is still
\* being recognized after the deadline.
C5_ProcessOCRWitness ==
    /\ req.kind = "processOCR" /\ req.phase = "recognize"
    /\ req.now > TimeoutMinutes(req.isServerless)
    /\ req.outer = "rejected" /\ req.outerError = TimeoutError(req.isServerless)


(***************************************************************************)
(* src/lib/ocr-core.ts (bounding-box part) and src/lib/textMatching.ts:    *)
(* the transform of a box found in a rotated pass back to the frame of the *)
(* un-rotated image.                                                       *)
(***************************************************************************)
MaxDim == 3     \* largest width and height of the small images

Box(x0, y0, x1, y1) == [x0 |-> x0, y0 |-> y0, x1 |-> x1, y1 |-> y1]

\* Mutant: the 90 degree case subtracts from the height instead of the width.
transformBBoxToOriginalOrientation_HeightFor90(bbox, angle, imageWidth, imageHeight) ==
    IF angle = 0 THEN bbox
    ELSE CASE angle = 90 ->
                Box(imageHeight - bbox.y1, bbox.x0, imageHeight - bbox.y0, bbox.x1)
           [] angle = 180 ->
                Box(imageWidth - bbox.x1, imageHeight - bbox.y1,
                    imageWidth - bbox.x0, imageHeight - bbox.y0)
           [] angle = 270 ->
                Box(bbox.y0, imageHeight - bbox.x1, bbox.y1, imageHeight - bbox.x0)
           [] OTHER -> bbox

\* transformBBoxToOriginalOrientation (ocr-core.ts 817-864)
transformBBoxToOriginalOrientation(bbox, angle, imageWidth, imageHeight) ==
    IF angle = 0 THEN bbox
    ELSE CASE angle = 90 ->
                Box(imageWidth - bbox.y1, bbox.x0, imageWidth - bbox.y0, bbox.x1)
           [] angle = 180 ->
                Box(imageWidth - bbox.x1, imageHeight - bbox.y1,
                    imageWidth - bbox.x0, imageHeight - bbox.y0)
           [] angle = 270 ->
                Box(bbox.y0, imageHeight - bbox.x1, bbox.y1, imageHeight - bbox.x0)
           [] OTHER -> bbox

\* Mutant: the 90 and 270 degree cases are exchanged.
transformPrimaryBBoxes_Clockwise(bboxes, rotationDegrees, imageWidth, imageHeight) ==
    IF rotationDegrees = 0 \/ Len(bboxes) = 0 THEN bboxes
    ELSE [i \in 1..Len(bboxes) |->
            LET bbox == bboxes[i] IN
            CASE rotationDegrees = 270 ->
                    Box(imageWidth - bbox.y1, bbox.x0, imageWidth - bbox.y0, bbox.x1)
              [] rotationDegrees = 180 ->
                    Box(imageWidth - bbox.x1, imageHeight - bbox.y1,
                        imageWidth - bbox.x0, imageHeight - bbox.y0)
              [] rotationDegrees = 90 ->
                    Box(bbox.y0, imageHeight - bbox.x1, bbox.y1, imageHeight - bbox.x0)
              [] OTHER -> bbox]

\* transformPrimaryBBoxes (textMatching.ts 41-88)
transformPrimaryBBoxes(bboxes, rotationDegrees, imageWidth, imageHeight) ==
    IF rotationDegrees = 0 \/ Len(bboxes) = 0 THEN bboxes
    ELSE [i \in 1..Len(bboxes) |->
            LET bbox == bboxes[i] IN
            CASE rotationDegrees = 90 ->
                    Box(imageWidth - bbox.y1, bbox.x0, imageWidth - bbox.y0, bbox.x1)
              [] rotationDegrees = 180 ->
                    Box(imageWidth - bbox.x1, imageHeight - bbox.y1,
                        imageWidth - bbox.x0, imageHeight - bbox.y0)
              [] rotationDegrees = 270 ->
                    Box(bbox.y0, imageHeight - bbox.x1, bbox.y1, imageHeight - bbox.x0)
              [] OTHER -> bbox]

\* ROTATION_ANGLES (ocr-core.ts 12)
ROTATION_ANGLES == << 0, 90, 180, 270 >>
Angles == { ROTATION_ANGLES[i] : i \in 1..Len(ROTATION_ANGLES) }

\* Jimp's rotate resizes the canvas: a quarter turn exchanges width and
\* height (ocr-core.ts 76-78).
CanvasWidth(angle, w, h) == IF angle \in {90, 270} THEN h ELSE w
CanvasHeight(angle, w, h) == IF angle \in {90, 270} THEN w ELSE h

\* The boxes that lie within a canvas of cw by ch pixels.
BoxesIn(cw, ch) ==
    { b \in [x0 : 0..cw, y0 : 0..ch, x1 : 0..cw, y1 : 0..ch] :
          b.x0 < b.x1 /\ b.y0 < b.y1 }

\* The box of the spec's scenario: found at 90 degrees in a 400 x 600 image.
ScenarioInput ==
    [bbox |-> Box(10, 10, 50, 30), angle |-> 90, imageWidth |-> 400, imageHeight |-> 600]

\* The inputs: every box of every rotated pass of every small image, and
\* the scenario.
TransformInputs ==
    { ScenarioInput } \cup
    UNION { UNION { { [bbox |-> b, angle |-> a, imageWidth |-> w, imageHeight |-> h] :
                          b \in BoxesIn(CanvasWidth(a, w, h), CanvasHeight(a, w, h)) } :
                    a \in Angles } :
            w \in 1..MaxDim, h \in 1..MaxDim }

ZeroBox == Box(0, 0, 0, 0)

InitTransform ==
    /\ IdleSingleton /\ IdleReq /\ IdleRegExp
    /\ args \in TransformInputs
    /\ ret = [original |-> ZeroBox, primary |-> << >>, back |-> ZeroBox, backSame |-> ZeroBox]
    /\ pc = {}

\* findBBoxesAcrossRotations (ocr-core.ts 903-911): a box of the pass at
\* args.angle is mapped with the dimensions of the un-rotated image.
TransformToOriginal ==
    /\ "original" \notin pc
    /\ ret' = [ret EXCEPT !.original =
                  transformBBoxToOriginalOrientation(args.bbox, args.angle,
                                                     args.imageWidth, args.imageHeight)]
    /\ pc' = pc \cup {"original"}
    /\ UNCHANGED << singletonVars, req, args, lastIndex >>

\* matchBrandName (textMatching.ts 231-236): the boxes of the primary pass
\* are mapped with the same dimensions.
TransformPrimary ==
    /\ "primary" \notin pc
    /\ ret' = [ret EXCEPT !.primary =
                  transformPrimaryBBoxes(<< args.bbox >>, args.angle,
                                         args.imageWidth, args.imageHeight)]
    /\ pc' = pc \cup {"primary"}
    /\ UNCHANGED << singletonVars, req, args, lastIndex >>

InverseAngle(angle) == (360 - angle) % 360

\* The mapped box is mapped again by the inverse angle, the function being
\* given the dimensions of the canvas of args.bbox (the rotated pass).
TransformBack ==
    /\ "original" \in pc /\ "back" \notin pc
    /\ ret' = [ret EXCEPT !.back =
                  transformBBoxToOriginalOrientation(ret.original, InverseAngle(args.angle),
                      CanvasWidth(args.angle, args.imageWidth, args.imageHeight),
                      CanvasHeight(args.angle, args.imageWidth, args.imageHeight))]
    /\ pc' = pc \cup {"back"}
    /\ UNCHANGED << singletonVars, req, args, lastIndex >>

\* The same, the function being given the dimensions of the canvas the
\* mapped box lives in (the un-rotated image).
TransformBackSameDimensions ==
    /\ "original" \in pc /\ "backSame" \notin pc
    /\ ret' = [ret EXCEPT !.backSame =
                  transformBBoxToOriginalOrientation(ret.original, InverseAngle(args.angle),
                                                     args.imageWidth, args.imageHeight)]
    /\ pc' = pc \cup {"backSame"}
    /\ UNCHANGED << singletonVars, req, args, lastIndex >>

NextTransform ==
    \/ TransformToOriginal
    \/ TransformPrimary
    \/ TransformBack
    \/ TransformBackSameDimensions

SpecTransform == InitTransform /\ [][NextTransform]_vars

\* The box the claim states for each angle.
StatedBox(b, angle, W, H) ==
    CASE angle = 0   -> b
      [] angle = 90  -> Box(W - b.y1, b.x0, W - b.y0, b.x1)
      [] angle = 180 -> Box(W - b.x1, H - b.y1, W - b.x0, H - b.y0)
      [] angle = 270 -> Box(b.y0, H - b.x1, b.y1, H - b.x0)

\* C6: for each of the four angles transformBBoxToOriginalOrientation
\* returns exactly the stated box (the box itself for 0), the scenario box
\* (10,10,50,30) at 90 degrees in 400 x 600 maps to (370,10,390,50), and
\* transformPrimaryBBoxes returns the same box for the same inputs.
C6_TransformFormulas ==
    /\ "original" \in pc =>
          /\ ret.original = StatedBox(args.bbox, args.angle, args.imageWidth, args.imageHeight)
          /\ args = ScenarioInput => ret.original = Box(370, 10, 390, 50)
    /\ "primary" \in pc =>
          ret.primary = << StatedBox(args.bbox, args.angle, args.imageWidth, args.imageHeight) >>
    /\ {"original", "primary"} \subseteq pc => ret.primary = << ret.original >>

C6_Witness ==
    /\ args = ScenarioInput
    /\ {"original", "primary"} \subseteq pc
    /\ ret.original = Box(370, 10, 390, 50)
    /\ ret.primary = << Box(370, 10, 390, 50) >>

\* C7 as stated: for every angle in {90,180,270} and every box within the
\* image, the transform by the angle followed by the transform by 360 minus
\* the angle, given the dimensions of the canvas the intermediate box lives
\* in, returns the original box.
C7_RoundTripIntermediateCanvas ==
    (args.angle \in {90, 180, 270} /\ "backSame" \in pc) => ret.backSame = args.bbox

\* C7 amended: the round trip returns the original box when the second
\* transform is given the dimensions of the canvas the original box lives
\* in (width and height exchanged for 90 and 270); with the dimensions of
\* the intermediate box's canvas it does so for 180 and for square images.
C7_RoundTripOriginalCanvas ==
    /\ (args.angle \in {90, 180, 270} /\ "back" \in pc) => ret.back = args.bbox
    /\ (args.angle \in {90, 180, 270} /\ "backSame" \in pc
          /\ (args.angle = 180 \/ args.imageWidth = args.imageHeight))
          => ret.backSame = args.bbox

C7_Witness ==
    /\ args.angle = 270 /\ args.imageWidth # args.imageHeight
    /\ {"back", "backSame"} \subseteq pc
    /\ ret.back = args.bbox
    /\ ret.backSame # args.bbox

(***************************************************************************)
(* src/lib/ocr-core.ts (bounding-box part): mergeBBoxes and                *)
(* deduplicateBBoxes.                                                      *)
(***************************************************************************)
MaxBoxes == 3       \* longest list of boxes given to the functions
MaxCoord == 3       \* largest left coordinate of a word box
MaxThreshold == 1   \* largest merge threshold

Min(a, b) == IF a < b THEN a ELSE b
Max(a, b) == IF a > b THEN a ELSE b
Abs(a) == IF a < 0 THEN -a ELSE a

\* The comparator of the sort (ocr-core.ts 759-762): negative, zero or positive.
CompareBoxes(a, b) ==
    LET yDiff == a.y0 - b.y0 IN IF yDiff # 0 THEN yDiff ELSE a.x0 - b.x0

\* Array.prototype.sort is stable: a box goes after every box that does not
\* compare greater than it.
RECURSIVE InsertSorted(_, _)
InsertSorted(sorted, box) ==
    IF Len(sorted) = 0 THEN << box >>
    ELSE IF CompareBoxes(sorted[Len(sorted)], box) <= 0
         THEN Append(sorted, box)
         ELSE Append(InsertSorted(SubSeq(sorted, 1, Len(sorted) - 1), box),
                     sorted[Len(sorted)])

RECURSIVE SortBoxes(_)
SortBoxes(boxes) ==
    IF Len(boxes) = 0 THEN << >>
    ELSE InsertSorted(SortBoxes(SubSeq(boxes, 1, Len(boxes) - 1)), boxes[Len(boxes)])

\* The loop of mergeBBoxes (ocr-core.ts 767-792), from index i on.
RECURSIVE MergeLoop(_, _, _, _, _)
MergeLoop(sorted, i, current, merged, threshold) ==
    IF i > Len(sorted) THEN Append(merged, current)
    ELSE LET box == sorted[i]
             onSameLine == Abs(box.y0 - current.y0) <= threshold
             adjacent == box.x0 - current.x1 <= threshold
         IN IF onSameLine /\ adjacent
            THEN MergeLoop(sorted, i + 1,
                           Box(Min(current.x0, box.x0), Min(current.y0, box.y0),
                               Max(current.x1, box.x1), Max(current.y1, box.y1)),
                           merged, threshold)
            ELSE MergeLoop(sorted, i + 1, box, Append(merged, current), threshold)

\* mergeBBoxes (ocr-core.ts 751-793)
mergeBBoxes(boxes, threshold) ==
    IF Len(boxes) = 0 THEN << >>
    ELSE IF Len(boxes) = 1 THEN boxes
    ELSE LET sorted == SortBoxes(boxes)
         IN MergeLoop(sorted, 2, sorted[1], << >>, threshold)

\* The key of a box in the set of seen boxes (ocr-core.ts 801): the four
\* coordinates in decimal, joined by commas.
BoxKey(box) ==
    ToString(box.x0) \o "," \o ToString(box.y0) \o "," \o
    ToString(box.x1) \o "," \o ToString(box.y1)

\* The filter of deduplicateBBoxes (ocr-core.ts 800-805), from index i on.
RECURSIVE DedupFilter(_, _, _, _)
DedupFilter(boxes, i, seen, kept) ==
    IF i > Len(boxes) THEN kept
    ELSE LET key == BoxKey(boxes[i])
         IN IF key \in seen
            THEN DedupFilter(boxes, i + 1, seen, kept)
            ELSE DedupFilter(boxes, i + 1, seen \cup {key}, Append(kept, boxes[i]))

\* Mutant: the filter keeps the last occurrence of a box instead of the first.
RECURSIVE DedupFilterLast(_, _, _, _)
DedupFilterLast(boxes, i, seen, kept) ==
    IF i < 1 THEN kept
    ELSE LET key == BoxKey(boxes[i])
         IN IF key \in seen
            THEN DedupFilterLast(boxes, i - 1, seen, kept)
            ELSE DedupFilterLast(boxes, i - 1, seen \cup {key}, << boxes[i] >> \o kept)

deduplicateBBoxes_KeepLast(boxes) == DedupFilterLast(boxes, Len(boxes), {}, << >>)

\* deduplicateBBoxes (ocr-core.ts 798-806)
deduplicateBBoxes(boxes) == DedupFilter(boxes, 1, {}, << >>)

\* The word boxes: one pixel wide and high, on two text lines.
Rows == {0, 1}
WordBoxes == { Box(x, y, x + 1, y + 1) : x \in 0..MaxCoord, y \in Rows }

BoxLists == UNION { [1..n -> WordBoxes] : n \in 0..MaxBoxes }

InitMerge ==
    /\ IdleSingleton /\ IdleReq /\ IdleRegExp
    /\ args \in [boxes : BoxLists, threshold : 0..MaxThreshold]
    /\ ret = [merged |-> << >>, mergedAgain |-> << >>, shown |-> << >>,
              deduped |-> << >>, dedupedAgain |-> << >>]
    /\ pc = {}

Merge ==
    /\ "merged" \notin pc
    /\ ret' = [ret EXCEPT !.merged = mergeBBoxes(args.boxes, args.threshold)]
    /\ pc' = pc \cup {"merged"}
    /\ UNCHANGED << singletonVars, req, args, lastIndex >>

\* The merged list is merged again with the same threshold.
MergeAgain ==
    /\ "merged" \in pc /\ "mergedAgain" \notin pc
    /\ ret' = [ret EXCEPT !.mergedAgain = mergeBBoxes(ret.merged, args.threshold)]
    /\ pc' = pc \cup {"mergedAgain"}
    /\ UNCHANGED << singletonVars, req, args, lastIndex >>

\* matchBrandName (textMatching.ts 228): deduplicateBBoxes(mergeBBoxes(...)).
DeduplicateMerged ==
    /\ "merged" \in pc /\ "shown" \notin pc
    /\ ret' = [ret EXCEPT !.shown = deduplicateBBoxes(ret.merged)]
    /\ pc' = pc \cup {"shown"}
    /\ UNCHANGED << singletonVars, req, args, lastIndex >>

\* findBBoxesAcrossRotations (ocr-core.ts 917): the boxes of all passes.
Deduplicate ==
    /\ "deduped" \notin pc
    /\ ret' = [ret EXCEPT !.deduped = deduplicateBBoxes(args.boxes)]
    /\ pc' = pc \cup {"deduped"}
    /\ UNCHANGED << singletonVars, req, args, lastIndex >>

DeduplicateAgain ==
    /\ "deduped" \in pc /\ "dedupedAgain" \notin pc
    /\ ret' = [ret EXCEPT !.dedupedAgain = deduplicateBBoxes(ret.deduped)]
    /\ pc' = pc \cup {"dedupedAgain"}
    /\ UNCHANGED << singletonVars, req, args, lastIndex >>

NextMerge ==
    \/ Merge
    \/ MergeAgain
    \/ DeduplicateMerged
    \/ Deduplicate
    \/ DeduplicateAgain

SpecMerge == InitMerge /\ [][NextMerge]_vars

\* C8: merging an already merged list with the same threshold yields the
\* same list: mergeBBoxes(mergeBBoxes(L, t), t) = mergeBBoxes(L, t).
C8_MergeIdempotent ==
    "mergedAgain" \in pc => ret.mergedAgain = ret.merged

\* The indexes of the first occurrences of the boxes of a list.
FirstIndexes(boxes) ==
    { i \in 1..Len(boxes) : \A j \in 1..(i - 1) : boxes[j] # boxes[i] }

\* The list without every box equal to an earlier one, in the original order.
FirstOccurrences(boxes) ==
    LET I == FirstIndexes(boxes)
    IN [k \in 1..Cardinality(I) |->
            boxes[CHOOSE i \in I : Cardinality({ j \in I : j <= i }) = k]]

DedupContract(in, out) ==
    /\ out = FirstOccurrences(in)
    /\ \A i, j \in 1..Len(out) : i # j => out[i] # out[j]
    /\ { in[i] : i \in 1..Len(in) } = { out[i] : i \in 1..Len(out) }
    /\ Len(out) <= Len(in)

\* C9: deduplicateBBoxes returns the input without every box whose four
\* coordinates equal those of an earlier box, first occurrences kept in
\* their order: no two equal boxes in the output, every distinct input box
\* in it, never longer than the input, unchanged by a second application.
C9_DeduplicateFirstOccurrences ==
    /\ "deduped" \in pc => DedupContract(args.boxes, ret.deduped)
    /\ "dedupedAgain" \in pc => ret.dedupedAgain = ret.deduped
    /\ "shown" \in pc => DedupContract(ret.merged, ret.shown)

C9_Witness ==
    /\ "dedupedAgain" \in pc
    /\ Len(args.boxes) = 3
    /\ args.boxes[1] = args.boxes[3] /\ args.boxes[1] # args.boxes[2]
    /\ ret.deduped = << args.boxes[1], args.boxes[2] >>

(***************************************************************************)
(* src/lib/textMatching.ts and src/lib/constants.ts: the alcohol content   *)
(* matcher.  A text is a sequence of one-character strings.  A number is   *)
(* an integer count of thousandths, so that 4.5 is 4500 and half a proof   *)
(* value with two decimals is exact.                                       *)
(***************************************************************************)
Scale == 1000

DigitChars == << "0", "1", "2", "3", "4", "5", "6", "7", "8", "9" >>
UpperChars == << "A", "B", "C", "D", "E", "F", "G", "H", "I", "J", "K", "L", "M",
                 "N", "O", "P", "Q", "R", "S", "T", "U", "V", "W", "X", "Y", "Z" >>
LowerChars == << "a", "b", "c", "d", "e", "f", "g", "h", "i", "j", "k", "l", "m",
                 "n", "o", "p", "q", "r", "s", "t", "u", "v", "w", "x", "y", "z" >>

IsDigit(c) == \E i \in 1..10 : DigitChars[i] = c
DigitValue(c) == (CHOOSE i \in 1..10 : DigitChars[i] = c) - 1
IsSpace(c) == c \in {" ", "\t", "\n"}

\* String.prototype.toLowerCase
LowerChar(c) ==
    IF \E i \in 1..26 : UpperChars[i] = c
    THEN LowerChars[CHOOSE i \in 1..26 : UpperChars[i] = c]
    ELSE c
ToLowerCase(text) == [i \in 1..Len(text) |-> LowerChar(text[i])]

\* The pattern word occurs in the text at index i.
HasPrefixAt(text, i, word, ignoreCase) ==
    /\ i >= 1
    /\ i + Len(word) - 1 <= Len(text)
    /\ \A k \in 1..Len(word) :
          IF ignoreCase THEN LowerChar(text[i + k - 1]) = LowerChar(word[k])
          ELSE text[i + k - 1] = word[k]

\* String.prototype.includes
Includes(text, word) == \E i \in 1..(Len(text) + 1) : HasPrefixAt(text, i, word, FALSE)

\* The index after the longest run of digits (of white space) from index i.
RECURSIVE DigitsEnd(_, _)
DigitsEnd(text, i) ==
    IF i <= Len(text) /\ IsDigit(text[i]) THEN DigitsEnd(text, i + 1) ELSE i

RECURSIVE SpacesEnd(_, _)
SpacesEnd(text, i) ==
    IF i <= Len(text) /\ IsSpace(text[i]) THEN SpacesEnd(text, i + 1) ELSE i

\* (\d+\.?\d*) at index i: the index after the group, 0 when it does not match.
NumberEnd(text, i) ==
    LET e1 == DigitsEnd(text, i)
        e2 == IF e1 <= Len(text) /\ text[e1] = "." THEN e1 + 1 ELSE e1
    IN IF e1 = i THEN 0 ELSE DigitsEnd(text, e2)

\* (\d+(?:\.\d+)?) at index i: the index after the group, 0 when it does not match.
StrictNumberEnd(text, i) ==
    LET e1 == DigitsEnd(text, i)
        dot == e1 + 1 <= Len(text) /\ text[e1] = "." /\ IsDigit(text[e1 + 1])
    IN IF e1 = i THEN 0 ELSE IF dot THEN DigitsEnd(text, e1 + 1) ELSE e1

\* The pieces of the part of a pattern after the number group and \s*: a
\* literal, an optional literal (x?), and \s*.
Lit(word) == [kind |-> "lit", word |-> word]
Opt(word) == [kind |-> "opt", word |-> word]
Spaces == [kind |-> "spaces", word |-> << >>]

\* The patterns of constants.ts: a number group, \s*, and alternatives tried
\* in their order.  No alternative starts with a digit, a dot or white
\* space, and no optional piece is followed by what it could have matched,
\* so the greedy match is the only one a start index admits.
ABV_PERCENTAGE_PATTERN ==
    [strict |-> FALSE, ignoreCase |-> FALSE, alternatives |-> << << Lit(<< "%" >>) >> >>]
ABV_ALCOHOL_PATTERN ==
    [strict |-> FALSE, ignoreCase |-> TRUE,
     alternatives |-> << << Lit(<< "A", "l", "c" >>) >>, << Lit(<< "A", "l", "c", "o", "h", "o", "l" >>) >> >>]
ABV_NOTATION_PATTERN ==
    [strict |-> FALSE, ignoreCase |-> TRUE, alternatives |-> << << Lit(<< "A", "B", "V" >>) >> >>]
PROOF_PATTERN ==
    [strict |-> FALSE, ignoreCase |-> TRUE, alternatives |-> << << Lit(<< "p", "r", "o", "o", "f" >>) >> >>]
\* /(\d+(?:\.\d+)?)\s*%/g (textMatching.ts 489)
StrictPercentPattern ==
    [strict |-> TRUE, ignoreCase |-> FALSE, alternatives |-> << << Lit(<< "%" >>) >> >>]
VOLUME_ML_PATTERN ==
    [strict |-> FALSE, ignoreCase |-> TRUE,
     alternatives |-> << << Lit(<< "m", "l" >>) >>, << Lit(<< "m", "L" >>) >>, << Lit(<< "M", "L" >>) >>,
                         << Lit(<< "m", "i", "l", "l", "i", "l", "i", "t", "e", "r" >>), Opt(<< "s" >>) >> >>]
VOLUME_OZ_PATTERN ==
    [strict |-> FALSE, ignoreCase |-> TRUE,
     alternatives |-> << << Lit(<< "f", "l" >>), Opt(<< "." >>), Spaces, Lit(<< "o", "z" >>), Opt(<< "." >>) >>,
                         << Lit(<< "F", "L" >>), Opt(<< "." >>), Spaces, Lit(<< "O", "Z" >>), Opt(<< "." >>) >>,
                         << Lit(<< "F", "L", "U", "I", "D" >>), Spaces, Lit(<< "O", "Z" >>), Opt(<< "." >>) >>,
                         << Lit(<< "o", "z" >>), Opt(<< "." >>) >>,
                         << Lit(<< "O", "Z" >>), Opt(<< "." >>) >>,
                         << Lit(<< "o", "u", "n", "c", "e" >>), Opt(<< "s" >>) >> >>]
VOLUME_L_PATTERN ==
    [strict |-> FALSE, ignoreCase |-> TRUE,
     alternatives |-> << << Lit(<< "l" >>) >>, << Lit(<< "L" >>) >>, << Lit(<< "l", "i", "t", "e", "r" >>), Opt(<< "s" >>) >> >>]

\* The index after the pieces k, k + 1, ... of an alternative matched from
\* index i, 0 when they do not match.
RECURSIVE PiecesEnd(_, _, _, _, _)
PiecesEnd(text, i, pieces, k, ignoreCase) ==
    IF k > Len(pieces) THEN i
    ELSE LET piece == pieces[k]
             here == HasPrefixAt(text, i, piece.word, ignoreCase)
         IN IF piece.kind = "spaces"
            THEN PiecesEnd(text, SpacesEnd(text, i), pieces, k + 1, ignoreCase)
            ELSE IF here
            THEN PiecesEnd(text, i + Len(piece.word), pieces, k + 1, ignoreCase)
            ELSE IF piece.kind = "opt"
            THEN PiecesEnd(text, i, pieces, k + 1, ignoreCase)
            ELSE 0

NonZero(n) == n # 0
Matched(m) == m.matched

\* The ends of the alternatives that match at index wordAt, in their order.
AlternativeEnds(text, wordAt, pattern) ==
    SelectSeq([k \in 1..Len(pattern.alternatives) |->
                   PiecesEnd(text, wordAt, pattern.alternatives[k], 1, pattern.ignoreCase)],
              NonZero)

\* One attempt of the pattern at index i: the number group ends at numEnd
\* and the first alternative that matches ends the match.
MatchAt(text, i, pattern) ==
    CHOOSE m \in
        { IF Len(ends) = 0 THEN [matched |-> FALSE, at |-> i, numEnd |-> 0, end |-> 0]
          ELSE [matched |-> TRUE, at |-> i, numEnd |-> numEnd, end |-> ends[1]] :
              numEnd \in { IF pattern.strict THEN StrictNumberEnd(text, i)
                           ELSE NumberEnd(text, i) },
              ends \in { IF (IF pattern.strict THEN StrictNumberEnd(text, i)
                             ELSE NumberEnd(text, i)) = 0
                         THEN << >>
                         ELSE AlternativeEnds(text,
                                              SpacesEnd(text, IF pattern.strict
                                                              THEN StrictNumberEnd(text, i)
                                                              ELSE NumberEnd(text, i)),
                                              pattern) } } : TRUE

\* The matches at the indexes from, from + 1, ... in their order.
MatchesFrom(text, from, pattern) ==
    SelectSeq([k \in 1..(Len(text) + 1 - from) |-> MatchAt(text, from + k - 1, pattern)],
              Matched)

\* String.prototype.matchAll with a global pattern: the first groups of the
\* successive matches, each search starting where the last match ended.
RECURSIVE MatchAllFrom(_, _, _)
MatchAllFrom(text, from, pattern) ==
    CHOOSE groups \in
        { IF Len(found) = 0 THEN << >>
          ELSE << SubSeq(text, found[1].at, found[1].numEnd - 1) >>
               \o MatchAllFrom(text, found[1].end, pattern) :
              found \in { MatchesFrom(text, from, pattern) } } : TRUE

MatchAll(text, pattern) == MatchAllFrom(text, 1, pattern)

\* The value of a run of digits, and of the first three digits of a fraction.
RECURSIVE DigitsValue(_)
DigitsValue(digits) ==
    IF Len(digits) = 0 THEN 0
    ELSE 10 * DigitsValue(SubSeq(digits, 1, Len(digits) - 1)) + DigitValue(digits[Len(digits)])

FractionValue(digits) ==
    LET d(k) == IF k <= Len(digits) THEN DigitValue(digits[k]) ELSE 0
    IN (d(1) * Scale) \div 10 + (d(2) * Scale) \div 100 + (d(3) * Scale) \div 1000

\* parseFloat: leading white space, a sign, digits, a dot and digits; NaN
\* (ok = FALSE) when no digit is read.  Exponents are not modelled.
ParseFloat(text) ==
    LET s == SpacesEnd(text, 1)
        neg == s <= Len(text) /\ text[s] = "-"
        i == IF s <= Len(text) /\ text[s] \in {"-", "+"} THEN s + 1 ELSE s
        e1 == DigitsEnd(text, i)
        dot == e1 <= Len(text) /\ text[e1] = "."
        e2 == IF dot THEN DigitsEnd(text, e1 + 1) ELSE e1
        fractionDigits == IF dot THEN SubSeq(text, e1 + 1, e2 - 1) ELSE << >>
        magnitude == DigitsValue(SubSeq(text, i, e1 - 1)) * Scale + FractionValue(fractionDigits)
    IN IF e1 = i /\ Len(fractionDigits) = 0 THEN [ok |-> FALSE, value |-> 0]
       ELSE [ok |-> TRUE, value |-> IF neg THEN -magnitude ELSE magnitude]

\* Number to string, as in a template literal: no trailing zeros.
RECURSIVE NatToChars(_)
NatToChars(n) ==
    IF n < 10 THEN << DigitChars[n + 1] >>
    ELSE Append(NatToChars(n \div 10), DigitChars[(n % 10) + 1])

RECURSIVE FractionChars(_, _)
FractionChars(fraction, unit) ==
    IF fraction = 0 THEN << >>
    ELSE << DigitChars[(fraction \div unit) + 1] >> \o FractionChars(fraction % unit, unit \div 10)

NumberToChars(number) ==
    IF ~number.ok THEN << "N", "a", "N" >>
    ELSE LET magnitude == Abs(number.value)
             fraction == magnitude % Scale
         IN (IF number.value < 0 THEN << "-" >> ELSE << >>)
            \o NatToChars(magnitude \div Scale)
            \o (IF fraction = 0 THEN << >> ELSE << "." >> \o FractionChars(fraction, Scale \div 10))

Number(value) == [ok |-> TRUE, value |-> value]

\* String.prototype.replace with a string pattern: the first occurrence only.
RemoveFirst(text, c) ==
    IF \E i \in 1..Len(text) : text[i] = c
    THEN LET i == CHOOSE k \in 1..Len(text) : text[k] = c /\ \A m \in 1..(k - 1) : text[m] # c
         IN SubSeq(text, 1, i - 1) \o SubSeq(text, i + 1, Len(text))
    ELSE text

(***************************************************************************)
(* src/lib/textMatching.ts: the utility functions of the matchers.         *)
(***************************************************************************)
IsLetter(c) == \E i \in 1..26 : LowerChars[i] = c \/ UpperChars[i] = c

\* \w
IsWordChar(c) == IsLetter(c) \/ IsDigit(c) \/ c = "_"

\* String.prototype.trim
Trim(text) ==
    LET inked == { i \in 1..Len(text) : ~IsSpace(text[i]) }
    IN IF inked = {} THEN << >>
       ELSE SubSeq(text, CHOOSE i \in inked : \A k \in inked : i <= k,
                         CHOOSE i \in inked : \A k \in inked : i >= k)

\* replace(/\s+/g, " "): the first character of each run of white space
\* stays, as a space.
CollapseSpaces(text) ==
    LET First(i) == ~IsSpace(text[i]) \/ i = 1 \/ ~IsSpace(text[i - 1])
        kept == SelectSeq([i \in 1..Len(text) |-> i], First)
    IN [k \in 1..Len(kept) |-> IF IsSpace(text[kept[k]]) THEN " " ELSE text[kept[k]]]

\* normalizeText (textMatching.ts 999-1006)
normalizeText(text) ==
    LET Kept(c) == IsWordChar(c) \/ IsSpace(c) \/ c = "." \/ c = "%"
        NotDot(c) == c # "."
    IN SelectSeq(SelectSeq(CollapseSpaces(Trim(ToLowerCase(text))), Kept), NotDot)

\* String.prototype.split(/\s+/): the pieces between the runs of white
\* space, from index i on.
RECURSIVE SplitFrom(_, _)
SplitFrom(text, i) ==
    LET spaces == { k \in i..Len(text) : IsSpace(text[k]) }
    IN IF spaces = {} THEN << SubSeq(text, i, Len(text)) >>
       ELSE LET at == CHOOSE k \in spaces : \A m \in spaces : k <= m
            IN << SubSeq(text, i, at - 1) >> \o SplitFrom(text, SpacesEnd(text, at))

Split(text) == SplitFrom(text, 1)

\* Array.prototype.join(" ")
RECURSIVE Join(_)
Join(words) ==
    IF Len(words) = 0 THEN << >>
    ELSE IF Len(words) = 1 THEN words[1]
    ELSE words[1] \o << " " >> \o Join(SubSeq(words, 2, Len(words)))

\* One row of the matrix of levenshteinDistance from the row above it
\* (textMatching.ts 1052-1064); row[j + 1] is matrix[i][j].
RECURSIVE FillRow(_, _, _, _)
FillRow(row, above, c, str2) ==
    LET j == Len(row)
    IN IF j > Len(str2) THEN row
       ELSE FillRow(Append(row, IF c = str2[j] THEN above[j]
                                ELSE Min(Min(above[j] + 1, row[j] + 1), above[j + 1] + 1)),
                    above, c, str2)

\* The rows of the matrix, one after the other (the loop over i at 1052);
\* every row has str2.length + 1 cells, and the last cell of the last row is
\* the distance (1067).
RECURSIVE FillMatrix(_, _, _, _)
FillMatrix(above, i, str1, str2) ==
    IF Len(above) = Len(str2) + 1 /\ i > Len(str1) THEN above[Len(str2) + 1]
    ELSE FillMatrix(FillRow(<< i >>, above, str1[i], str2), i + 1, str1, str2)

\* levenshteinDistance (textMatching.ts 1046-1068)
levenshteinDistance(str1, str2) ==
    FillMatrix([j \in 1..(Len(str2) + 1) |-> j - 1], 1, str1, str2)

\* Math.round(numerator / denominator * 100) of natural numbers
RoundPercent(numerator, denominator) ==
    (200 * numerator + denominator) \div (2 * denominator)

\* calculateSimilarity (textMatching.ts 1027-1041)
calculateSimilarity(str1, str2) ==
    CHOOSE similarity \in
        { [score |-> IF maxLen > 0 THEN RoundPercent(maxLen - distance, maxLen) ELSE 0,
           distance |-> distance] :
              distance \in { levenshteinDistance(str1, str2) },
              maxLen \in { Max(Len(str1), Len(str2)) } } : TRUE

\* ocrText.match(new RegExp(word, "i")): the places the word occurs at.
OccurrencesOf(ocrText, word) ==
    { i \in 1..(Len(ocrText) + 1) : HasPrefixAt(ocrText, i, word, TRUE) }

RECURSIVE ExtractFirst(_, _, _, _)
ExtractFirst(ocrText, words, k, expected) ==
    IF k > Len(words) THEN expected
    ELSE IF OccurrencesOf(ocrText, words[k]) # {}
         THEN LET at == CHOOSE i \in OccurrencesOf(ocrText, words[k]) :
                            \A m \in OccurrencesOf(ocrText, words[k]) : i <= m
              IN SubSeq(ocrText, at, at + Len(words[k]) - 1)
         ELSE ExtractFirst(ocrText, words, k + 1, expected)

\* extractMatch (textMatching.ts 1011-1022)
extractMatch(ocrText, expected) ==
    ExtractFirst(ocrText, Split(normalizeText(expected)), 1, expected)

\* DEFAULT_MATCHING_CONFIG.alcoholContent (constants.ts 128-140): 0.5 and 2.0
exactTolerance == Scale \div 2
looseTolerance == 2 * Scale

\* The ranges of a credible ABV: 0.5 to 95, and 0.5 to 20 for a bare percentage.
MinABV == Scale \div 2
MaxABV == 95 * Scale
MaxGenericABV == 20 * Scale

\* The words searched around a keyword (textMatching.ts 453-454)
NearbyWords == 5

\* Confidences are counts of tenths; Math.round rounds halves up.
MathRound(tenths) == (tenths + 5) \div 10

\* Math.abs(found - expectedNum) <= tolerance; false when expectedNum is NaN.
WithinTolerance(found, expectedNum, tolerance) ==
    expectedNum.ok /\ Abs(found - expectedNum.value) <= tolerance

\* The numbers read from the first groups that lie in a range.
ParsedInRange(groups, divisor, low, high) ==
    LET nums == [k \in 1..Len(groups) |-> ParseFloat(groups[k]).value \div divisor]
        InRange(n) == n >= low /\ n <= high
    IN SelectSeq(nums, InRange)

\* The first element of a list that is within the tolerance, if any.
FirstWithin(found, expectedNum, tolerance) ==
    LET Within(n) == WithinTolerance(n, expectedNum, tolerance)
        within == SelectSeq(found, Within)
    IN IF Len(within) = 0 THEN << >> ELSE << within[1] >>

AlcoholResult(status, expectedNum, found, confidence, message) ==
    [field |-> "alcoholContent", status |-> status,
     expected |-> NumberToChars(expectedNum) \o << "%" >>,
     found |-> found, confidence |-> confidence, message |-> message,
     bboxes |-> << >>]

FoundChars(value) == NumberToChars(Number(value)) \o << "%" >>

\* The candidates a word contributes (textMatching.ts 456-517).
CandidatesOfWord(word) ==
    LET text == word.text
        alc == ParsedInRange(MatchAll(text, ABV_ALCOHOL_PATTERN), 1, MinABV, MaxABV)
        abv == ParsedInRange(MatchAll(text, ABV_NOTATION_PATTERN), 1, MinABV, MaxABV)
        percent == ParsedInRange(MatchAll(text, StrictPercentPattern), 1, MinABV, MaxGenericABV)
        number == IF Len(text) > 0 /\ StrictNumberEnd(text, 1) = Len(text) + 1
                  THEN ParsedInRange(<< text >>, 1, MinABV, MaxGenericABV)
                  ELSE << >>
        values == alc \o abv \o percent \o number
    IN [k \in 1..Len(values) |-> [value |-> values[k], confidence |-> word.confidence]]

RECURSIVE CandidatesNear(_, _, _)
CandidatesNear(words, i, nearbyEnd) ==
    IF i > nearbyEnd THEN << >>
    ELSE CandidatesOfWord(words[i]) \o CandidatesNear(words, i + 1, nearbyEnd)

RECURSIVE CandidatesFrom(_, _)
CandidatesFrom(words, idx) ==
    IF idx > Len(words) THEN << >>
    ELSE LET text == ToLowerCase(words[idx].text)
             keyword == \/ Includes(text, << "a", "l", "c" >>)
                        \/ Includes(text, << "v", "o", "l" >>)
                        \/ Includes(text, << "a", "b", "v" >>)
                        \/ Includes(text, << "a", "l", "c", "o", "h", "o", "l" >>)
         IN (IF keyword
             THEN CandidatesNear(words, Max(1, idx - NearbyWords),
                                 Min(Len(words), idx + NearbyWords))
             ELSE << >>)
            \o CandidatesFrom(words, idx + 1)

\* candidateNumbers.sort((a, b) => b.confidence - a.confidence), stable
RECURSIVE InsertByConfidence(_, _)
InsertByConfidence(sorted, candidate) ==
    IF Len(sorted) = 0 THEN << candidate >>
    ELSE IF sorted[Len(sorted)].confidence >= candidate.confidence
         THEN Append(sorted, candidate)
         ELSE Append(InsertByConfidence(SubSeq(sorted, 1, Len(sorted) - 1), candidate),
                     sorted[Len(sorted)])

RECURSIVE SortByConfidence(_)
SortByConfidence(candidates) ==
    IF Len(candidates) = 0 THEN << >>
    ELSE InsertByConfidence(SortByConfidence(SubSeq(candidates, 1, Len(candidates) - 1)),
                            candidates[Len(candidates)])

\* The checks of the word-block path, in their order (textMatching.ts 527-568).
BlockVerdict(expectedNum, candidateNumbers, tolerance, looseTol) ==
    LET Exact(c) == WithinTolerance(c.value, expectedNum, tolerance)
        Loose(c) == WithinTolerance(c.value, expectedNum, looseTol)
        exact == SelectSeq(candidateNumbers, Exact)
        loose == SelectSeq(candidateNumbers, Loose)
    IN IF Len(exact) > 0
       THEN << AlcoholResult("match", expectedNum, FoundChars(exact[1].value),
                             MathRound(exact[1].confidence), "Alcohol content verified") >>
       ELSE IF Len(loose) > 0
       THEN << AlcoholResult("mismatch", expectedNum, FoundChars(loose[1].value),
                             MathRound(loose[1].confidence),
                             "Alcohol content discrepancy detected") >>
       ELSE IF Len(candidateNumbers) > 0
       THEN << AlcoholResult("mismatch", expectedNum, FoundChars(candidateNumbers[1].value),
                             MathRound(candidateNumbers[1].confidence),
                             "Alcohol content does not match") >>
       ELSE << >>

\* matchAlcoholContentFromBlocks (textMatching.ts 414-569): << >> for null,
\* << result >> otherwise.
matchAlcoholContentFromBlocks(expectedNum, words, tolerance, looseTol) ==
    CHOOSE result \in { BlockVerdict(e, c, tolerance, looseTol) :
                            e \in {expectedNum},
                            c \in {SortByConfidence(CandidatesFrom(words, 1))} } : TRUE

\* The numbers the four patterns find in the text (textMatching.ts 624-696).
TextMatches(ocrText) ==
    [alcVol |-> ParsedInRange(MatchAll(ocrText, ABV_ALCOHOL_PATTERN), 1, MinABV, MaxABV),
     abv |-> ParsedInRange(MatchAll(ocrText, ABV_NOTATION_PATTERN), 1, MinABV, MaxABV),
     proof |-> ParsedInRange(MatchAll(ocrText, PROOF_PATTERN), 2, MinABV, MaxABV),
     percentage |->
         ParsedInRange(MatchAll(ocrText, ABV_PERCENTAGE_PATTERN), 1, MinABV, MaxGenericABV)]

\* The checks of the text path, in their order (textMatching.ts 630-779).
TextVerdict(expectedNum, m) ==
    LET allMatches == m.alcVol \o m.abv \o m.proof \o m.percentage
        firstExact == FirstWithin(m.alcVol, expectedNum, exactTolerance)
                      \o FirstWithin(m.abv, expectedNum, exactTolerance)
                      \o FirstWithin(m.proof, expectedNum, exactTolerance)
                      \o FirstWithin(allMatches, expectedNum, exactTolerance)
        firstLoose == FirstWithin(allMatches, expectedNum, looseTolerance)
    IN IF Len(firstExact) > 0
       THEN AlcoholResult("match", expectedNum, FoundChars(firstExact[1]), 100,
                          "Alcohol content verified")
       ELSE IF Len(firstLoose) > 0
       THEN AlcoholResult("mismatch", expectedNum, FoundChars(firstLoose[1]), 50,
                          "Alcohol content discrepancy detected")
       ELSE IF Len(m.alcVol) > 0
       THEN AlcoholResult("mismatch", expectedNum, FoundChars(m.alcVol[1]), 0,
                          "Alcohol content does not match")
       ELSE IF Len(m.abv) > 0
       THEN AlcoholResult("mismatch", expectedNum, FoundChars(m.abv[1]), 0,
                          "Alcohol content does not match")
       ELSE IF Len(allMatches) > 0
       THEN AlcoholResult("mismatch", expectedNum, FoundChars(allMatches[1]), 0,
                          "Alcohol content does not match")
       ELSE AlcoholResult("not_found", expectedNum, << >>, 0, "Alcohol content not detected")

\* The text path of matchAlcoholContent (textMatching.ts 622-779).
MatchAlcoholContentFromText(expectedNum, ocrText) ==
    CHOOSE result \in { TextVerdict(e, m) : e \in {expectedNum}, m \in {TextMatches(ocrText)} } :
        TRUE

\* matchAlcoholContent (textMatching.ts 574-780), called without a raw
\* Tesseract result: no boxes.
matchAlcoholContent(expected, ocrText, blocks) ==
    CHOOSE result \in
        { IF Len(blockResult) > 0 THEN blockResult[1]
          ELSE MatchAlcoholContentFromText(expectedNum, ocrText) :
              expectedNum \in { ParseFloat(RemoveFirst(expected, "%")) },
              blockResult \in
                  { IF Len(blocks) > 0
                    THEN matchAlcoholContentFromBlocks(ParseFloat(RemoveFirst(expected, "%")),
                                                       blocks, exactTolerance, looseTolerance)
                    ELSE << >> } } : TRUE

MaxHalves == 8      \* the ABV values are the halves 0.5, 1.0, ... up to MaxHalves / 2

\* The values: multiples of one half, which binary floating point holds
\* exactly, so that the differences the code computes are the real ones.
AbvValues == { (k * Scale) \div 2 : k \in 1..MaxHalves }

\* The ways a label prints its alcohol content: the text after the number,
\* and the factor between the number and the ABV (2 for proof).
LabelFormats ==
    { [after |-> << "%", " ", "A", "L", "C", "/", "V", "O", "L" >>, factor |-> 1],
      [after |-> << " ", "A", "l", "c", ".", "/", "V", "o", "l", "." >>, factor |-> 1],
      [after |-> << " ", "A", "B", "V" >>, factor |-> 1],
      [after |-> << " ", "P", "R", "O", "O", "F" >>, factor |-> 2],
      [after |-> << "%" >>, factor |-> 1] }

\* The confidences Tesseract gives a word, in tenths.
WordConfidences == { 604, 905 }

\* The words of a text, as the OCR engine cuts them at white space
\* (extractWordsFromBlocks, ocr-server.ts 319-334), all of one confidence.
WordsOf(text, confidence) ==
    LET NotEmpty(w) == Len(w) > 0
        words == SelectSeq(Split(text), NotEmpty)
    IN [k \in 1..Len(words) |-> [text |-> words[k], confidence |-> confidence]]

LabelText(value, format) == NumberToChars(Number(value * format.factor)) \o format.after

\* The inputs: an expected value as the form gives it, with or without a
\* percent sign, a label text carrying one value, and the words of the text
\* or no words at all.
AlcoholInputs ==
    { [expectedValue |-> e, foundValue |-> f, format |-> fmt,
       expected |-> NumberToChars(Number(e)) \o sign,
       ocrText |-> LabelText(f, fmt),
       blocks |-> IF c = 0 THEN << >> ELSE WordsOf(LabelText(f, fmt), c)] :
         e \in AbvValues, f \in AbvValues, fmt \in LabelFormats,
         sign \in { << >>, << "%" >> }, c \in {0} \cup WordConfidences }

InitAlcohol ==
    /\ IdleSingleton /\ IdleReq /\ IdleRegExp
    /\ args \in AlcoholInputs
    /\ ret = << >>
    /\ pc = {}

\* compareFields (textMatching.ts 155-165) calls matchAlcoholContent.
MatchAlcohol ==
    /\ pc = {}
    /\ ret' = matchAlcoholContent(args.expected, args.ocrText, args.blocks)
    /\ pc' = {"matched"}
    /\ UNCHANGED << singletonVars, req, args, lastIndex >>

NextAlcohol == MatchAlcohol

SpecAlcohol == InitAlcohol /\ [][NextAlcohol]_vars

\* The distance between the value of the label and the expected value.
Distance == Abs(args.foundValue - args.expectedValue)

\* match, then mismatch, then mismatch of confidence 0.
Rank(result) ==
    IF result.status = "match" THEN 0
    ELSE IF result.status = "mismatch" /\ result.confidence > 0 THEN 1
    ELSE IF result.status = "mismatch" THEN 2
    ELSE 3

ToleranceBands ==
    /\ Distance <= exactTolerance => ret.status = "match"
    /\ (Distance > exactTolerance /\ Distance <= looseTolerance) => ret.status = "mismatch"
    /\ Distance > looseTolerance => (ret.status = "mismatch" /\ ret.confidence = 0)

\* No label value farther from the expected value gets a better result.
NeverReverses ==
    \A f \in AbvValues :
        Abs(f - args.expectedValue) >= Distance =>
            LET text == LabelText(f, args.format)
                blocks == IF Len(args.blocks) = 0 THEN << >>
                          ELSE WordsOf(text, args.blocks[1].confidence)
            IN Rank(matchAlcoholContent(args.expected, text, blocks)) >= Rank(ret)

\* C10: for a fixed expected value E and an OCR input carrying one candidate
\* value f, matchAlcoholContent returns match when |f - E| <= 0.5, mismatch
\* when 0.5 < |f - E| <= 2.0, and mismatch with confidence 0 beyond 2.0; the
\* result never improves as |f - E| grows; on the text path and on the
\* word-block path.
C10_ToleranceMonotone ==
    "matched" \in pc => (ToleranceBands /\ NeverReverses)

\* C10 holds of the text path: no words given.
C10_TextPathOnly ==
    ("matched" \in pc /\ Len(args.blocks) = 0) => (ToleranceBands /\ NeverReverses)

C10_TextPathWitness ==
    /\ "matched" \in pc /\ Len(args.blocks) = 0
    /\ Distance > looseTolerance
    /\ ret.status = "mismatch" /\ ret.confidence = 0

(***************************************************************************)
(* src/lib/textMatching.ts: the matchers of the brand name, the product    *)
(* type, the net contents and the government warning, called without a raw *)
(* Tesseract result (no boxes), and compareFields.                         *)
(***************************************************************************)
\* DEFAULT_MATCHING_CONFIG (constants.ts 100-157)
brandFuzzyMatchThreshold == 80
wordMatchThreshold == 75
productTypeFuzzyMatchThreshold == 70
\* phraseMatchThreshold * 100
phraseMatchThresholdPercent == 60
\* 1 / volumeTolerance
volumeToleranceInverse == 50
\* normalizedOCR.slice(0, 50) (textMatching.ts 341)
ReverseCheckLength == 50
\* w.length > 2 (textMatching.ts 268)
ShortWordLength == 2

FieldResult(field, status, expected, found, confidence, message) ==
    [field |-> field, status |-> status, expected |-> expected, found |-> found,
     confidence |-> confidence, message |-> message, bboxes |-> << >>]

\* The steps of matchBrandName on the normalized texts (textMatching.ts 238-291).
BrandVerdict(expected, ocrText, normalizedExpected, normalizedOCR) ==
    LET Long(w) == Len(w) > ShortWordLength
        Present(w) == Includes(normalizedOCR, w)
        words == SelectSeq(Split(normalizedExpected), Long)
        matchedWords == SelectSeq(words, Present)
    IN IF Includes(normalizedOCR, normalizedExpected)
       THEN FieldResult("brandName", "match", expected, extractMatch(ocrText, expected),
                        100, "Brand name verified")
       ELSE IF calculateSimilarity(normalizedExpected, normalizedOCR).score
                   >= brandFuzzyMatchThreshold
       THEN FieldResult("brandName", "match", expected, extractMatch(ocrText, expected),
                        calculateSimilarity(normalizedExpected, normalizedOCR).score,
                        "Brand name verified")
       ELSE IF Len(words) > 0 /\ 100 * Len(matchedWords) >= wordMatchThreshold * Len(words)
       THEN FieldResult("brandName", "match", expected, Join(matchedWords),
                        RoundPercent(Len(matchedWords), Len(words)), "Brand name verified")
       ELSE FieldResult("brandName", "not_found", expected, << >>, 0,
                        "Brand name not detected")

\* matchBrandName (textMatching.ts 207-292)
matchBrandName(expected, ocrText) ==
    CHOOSE result \in { BrandVerdict(expected, ocrText, e, o) :
                            e \in { normalizeText(expected) },
                            o \in { normalizeText(ocrText) } } : TRUE

\* PRODUCT_TYPE_VARIATIONS (constants.ts 365-389), in the order of its keys.
\* The letter n with tilde is written ~: normalizeText removes both from a text.
PRODUCT_TYPE_VARIATIONS ==
    << [key |-> << "b", "o", "u", "r", "b", "o", "n" >>,
        variations |-> << << "b", "o", "u", "r", "b", "o", "n" >>,
                         << "b", "o", "u", "r", "b", "o", "n", " ", "w", "h", "i", "s", "k", "e", "y" >>,
                         << "k", "e", "n", "t", "u", "c", "k", "y", " ", "b", "o", "u", "r", "b", "o", "n" >>,
                         << "s", "t", "r", "a", "i", "g", "h", "t", " ", "b", "o", "u", "r", "b", "o", "n" >>,
                         << "k", "e", "n", "t", "u", "c", "k", "y", " ", "s", "t", "r", "a", "i", "g", "h", "t", " ", "b", "o", "u", "r", "b", "o", "n" >> >>],
       [key |-> << "w", "h", "i", "s", "k", "e", "y" >>,
        variations |-> << << "w", "h", "i", "s", "k", "y" >>,
                         << "w", "h", "i", "s", "k", "e", "y" >>,
                         << "b", "o", "u", "r", "b", "o", "n" >>,
                         << "r", "y", "e" >>,
                         << "s", "c", "o", "t", "c", "h" >> >>],
       [key |-> << "v", "o", "d", "k", "a" >>,
        variations |-> << << "v", "o", "d", "k", "a" >>,
                         << "d", "i", "s", "t", "i", "l", "l", "e", "d", " ", "v", "o", "d", "k", "a" >>,
                         << "p", "r", "e", "m", "i", "u", "m", " ", "v", "o", "d", "k", "a" >> >>],
       [key |-> << "g", "i", "n" >>,
        variations |-> << << "g", "i", "n" >>,
                         << "d", "i", "s", "t", "i", "l", "l", "e", "d", " ", "g", "i", "n" >>,
                         << "d", "r", "y", " ", "g", "i", "n" >>,
                         << "l", "o", "n", "d", "o", "n", " ", "d", "r", "y", " ", "g", "i", "n" >> >>],
       [key |-> << "r", "u", "m" >>,
        variations |-> << << "r", "u", "m" >>,
                         << "d", "i", "s", "t", "i", "l", "l", "e", "d", " ", "r", "u", "m" >>,
                         << "w", "h", "i", "t", "e", " ", "r", "u", "m" >>,
                         << "d", "a", "r", "k", " ", "r", "u", "m" >> >>],
       [key |-> << "t", "e", "q", "u", "i", "l", "a" >>,
        variations |-> << << "t", "e", "q", "u", "i", "l", "a" >>,
                         << "a", "~", "e", "j", "o" >>,
                         << "r", "e", "p", "o", "s", "a", "d", "o" >>,
                         << "b", "l", "a", "n", "c", "o" >> >>],
       [key |-> << "b", "r", "a", "n", "d", "y" >>,
        variations |-> << << "b", "r", "a", "n", "d", "y" >>,
                         << "c", "o", "g", "n", "a", "c" >>,
                         << "a", "r", "m", "a", "g", "n", "a", "c" >> >>],
       [key |-> << "i", "p", "a" >>,
        variations |-> << << "i", "p", "a" >>,
                         << "i", "n", "d", "i", "a", " ", "p", "a", "l", "e", " ", "a", "l", "e" >>,
                         << "p", "a", "l", "e", " ", "a", "l", "e" >> >>],
       [key |-> << "l", "a", "g", "e", "r" >>,
        variations |-> << << "l", "a", "g", "e", "r" >>,
                         << "l", "a", "g", "e", "r", " ", "b", "e", "e", "r" >>,
                         << "p", "i", "l", "s", "n", "e", "r" >> >>],
       [key |-> << "a", "l", "e" >>,
        variations |-> << << "a", "l", "e" >>,
                         << "p", "a", "l", "e", " ", "a", "l", "e" >>,
                         << "a", "m", "b", "e", "r", " ", "a", "l", "e" >> >>],
       [key |-> << "s", "t", "o", "u", "t" >>,
        variations |-> << << "s", "t", "o", "u", "t" >>,
                         << "p", "o", "r", "t", "e", "r" >>,
                         << "i", "m", "p", "e", "r", "i", "a", "l", " ", "s", "t", "o", "u", "t" >> >>],
       [key |-> << "w", "i", "n", "e" >>,
        variations |-> << << "w", "i", "n", "e" >>,
                         << "r", "e", "d", " ", "w", "i", "n", "e" >>,
                         << "w", "h", "i", "t", "e", " ", "w", "i", "n", "e" >>,
                         << "t", "a", "b", "l", "e", " ", "w", "i", "n", "e" >> >>],
       [key |-> << "r", "e", "d", " ", "w", "i", "n", "e" >>,
        variations |-> << << "r", "e", "d", " ", "w", "i", "n", "e" >>,
                         << "c", "a", "b", "e", "r", "n", "e", "t" >>,
                         << "m", "e", "r", "l", "o", "t" >>,
                         << "p", "i", "n", "o", "t", " ", "n", "o", "i", "r" >> >>],
       [key |-> << "w", "h", "i", "t", "e", " ", "w", "i", "n", "e" >>,
        variations |-> << << "w", "h", "i", "t", "e", " ", "w", "i", "n", "e" >>,
                         << "c", "h", "a", "r", "d", "o", "n", "n", "a", "y" >>,
                         << "s", "a", "u", "v", "i", "g", "n", "o", "n", " ", "b", "l", "a", "n", "c" >>,
                         << "p", "i", "n", "o", "t", " ", "g", "r", "i", "g", "i", "o" >> >>],
       [key |-> << "c", "h", "a", "m", "p", "a", "g", "n", "e" >>,
        variations |-> << << "c", "h", "a", "m", "p", "a", "g", "n", "e" >>,
                         << "s", "p", "a", "r", "k", "l", "i", "n", "g", " ", "w", "i", "n", "e" >> >>] >>

\* getProductTypeVariations (textMatching.ts 1073-1083)
getProductTypeVariations(productType) ==
    LET normalized == normalizeText(productType)
        keys == { k \in 1..Len(PRODUCT_TYPE_VARIATIONS) :
                      Includes(normalized, PRODUCT_TYPE_VARIATIONS[k].key) }
    IN IF keys = {} THEN << normalized >>
       ELSE PRODUCT_TYPE_VARIATIONS[CHOOSE k \in keys : \A m \in keys : k <= m].variations

\* The steps of matchProductType on the normalized texts (textMatching.ts 327-407).
ProductTypeVerdict(expected, ocrText, normalizedExpected, normalizedOCR, variations) ==
    LET Present(v) == Includes(normalizedOCR, v)
        present == SelectSeq(variations, Present)
    IN IF Includes(normalizedOCR, normalizedExpected)
       THEN FieldResult("productType", "match", expected, extractMatch(ocrText, expected),
                        100, "Product type verified")
       ELSE IF Includes(normalizedExpected,
                        SubSeq(normalizedOCR, 1, Min(ReverseCheckLength, Len(normalizedOCR))))
       THEN FieldResult("productType", "match", expected, extractMatch(ocrText, expected),
                        95, "Product type verified")
       ELSE IF Len(present) > 0
       THEN FieldResult("productType", "match", expected, present[1], 90,
                        "Product type verified")
       ELSE IF calculateSimilarity(normalizedExpected, normalizedOCR).score
                   >= productTypeFuzzyMatchThreshold
       THEN FieldResult("productType", "match", expected, extractMatch(ocrText, expected),
                        calculateSimilarity(normalizedExpected, normalizedOCR).score,
                        "Product type verified")
       ELSE FieldResult("productType", "not_found", expected, << >>, 0,
                        "Product type not detected")

\* matchProductType (textMatching.ts 297-408)
matchProductType(expected, ocrText) ==
    CHOOSE result \in { ProductTypeVerdict(expected, ocrText, e, o, v) :
                            e \in { normalizeText(expected) },
                            o \in { normalizeText(ocrText) },
                            v \in { getProductTypeVariations(normalizeText(expected)) } } :
        TRUE

\* WARNING_REQUIRED_PHRASES (constants.ts 25-32)
WARNING_REQUIRED_PHRASES ==
    << << "g", "o", "v", "e", "r", "n", "m", "e", "n", "t", " ", "w", "a", "r", "n", "i", "n", "g" >>,
       << "s", "u", "r", "g", "e", "o", "n", " ", "g", "e", "n", "e", "r", "a", "l" >>,
       << "p", "r", "e", "g", "n", "a", "n", "t" >>,
       << "b", "i", "r", "t", "h", " ", "d", "e", "f", "e", "c", "t", "s" >>,
       << "i", "m", "p", "a", "i", "r", "s" >>,
       << "h", "e", "a", "l", "t", "h", " ", "p", "r", "o", "b", "l", "e", "m", "s" >> >>

GovernmentWarningChars ==
    << "G", "O", "V", "E", "R", "N", "M", "E", "N", "T", " ", "W", "A", "R", "N", "I", "N", "G" >>
PartialWarningChars ==
    << "P", "a", "r", "t", "i", "a", "l", " ", "w", "a", "r", "n", "i", "n", "g", " ", "t", "e", "x", "t", " ", "d", "e", "t", "e", "c", "t", "e", "d" >>

\* Mutant: half of the phrases are enough for a match.
WarningVerdict_HalfIsEnough(foundPhrases) ==
    IF 2 * foundPhrases >= Len(WARNING_REQUIRED_PHRASES)
    THEN FieldResult("governmentWarning", "match", GovernmentWarningChars, GovernmentWarningChars,
                     RoundPercent(foundPhrases, Len(WARNING_REQUIRED_PHRASES)),
                     "Required health warning present")
    ELSE IF foundPhrases > 0
    THEN FieldResult("governmentWarning", "mismatch", GovernmentWarningChars,
                     PartialWarningChars,
                     RoundPercent(foundPhrases, Len(WARNING_REQUIRED_PHRASES)),
                     "Health warning text incomplete or illegible")
    ELSE FieldResult("governmentWarning", "not_found", GovernmentWarningChars, << >>, 0,
                     "Required health warning not found")

\* The result of matchGovernmentWarning for a number of found phrases
\* (textMatching.ts 955-989).
WarningVerdict(foundPhrases) ==
    IF 100 * foundPhrases >= phraseMatchThresholdPercent * Len(WARNING_REQUIRED_PHRASES)
    THEN FieldResult("governmentWarning", "match", GovernmentWarningChars, GovernmentWarningChars,
                     RoundPercent(foundPhrases, Len(WARNING_REQUIRED_PHRASES)),
                     "Required health warning present")
    ELSE IF foundPhrases > 0
    THEN FieldResult("governmentWarning", "mismatch", GovernmentWarningChars,
                     PartialWarningChars,
                     RoundPercent(foundPhrases, Len(WARNING_REQUIRED_PHRASES)),
                     "Health warning text incomplete or illegible")
    ELSE FieldResult("governmentWarning", "not_found", GovernmentWarningChars, << >>, 0,
                     "Required health warning not found")

\* matchGovernmentWarning (textMatching.ts 895-990)
matchGovernmentWarning(ocrText) ==
    CHOOSE result \in
        { WarningVerdict(Cardinality({ k \in 1..Len(WARNING_REQUIRED_PHRASES) :
                             Includes(o, normalizeText(WARNING_REQUIRED_PHRASES[k])) })) :
              o \in { normalizeText(ocrText) } } : TRUE

\* [a-zA-Z\s]
IsUnitChar(c) == IsLetter(c) \/ IsSpace(c)

RECURSIVE UnitRunEnd(_, _)
UnitRunEnd(text, i) ==
    IF i <= Len(text) /\ IsUnitChar(text[i]) THEN UnitRunEnd(text, i + 1) ELSE i

\* input.match(/(\d+\.?\d*)\s*([a-zA-Z\s]+)/) at index i: the two groups.
\* When only white space follows the number, \s* gives its last character
\* back to the second group.
VolumeGroupsAt(input, i) ==
    LET numEnd == NumberEnd(input, i)
        unitAt == SpacesEnd(input, numEnd)
        unitEnd == UnitRunEnd(input, unitAt)
    IN IF numEnd = 0 THEN << >>
       ELSE IF unitEnd > unitAt
       THEN << SubSeq(input, i, numEnd - 1), SubSeq(input, unitAt, unitEnd - 1) >>
       ELSE IF unitAt > numEnd
       THEN << SubSeq(input, i, numEnd - 1), << input[unitAt - 1] >> >>
       ELSE << >>

\* The unit parseVolume gives (textMatching.ts 1091-1094).
VolumeUnit(unit) ==
    IF Includes(unit, << "m", "l" >>) THEN << "m", "L" >>
    ELSE IF Includes(unit, << "o", "z" >>) THEN << "o", "z" >>
    ELSE IF unit = << "l" >> THEN << "L" >>
    ELSE unit

\* parseVolume (textMatching.ts 1087-1100): << >> for null.
parseVolume(input) ==
    LET starts == { i \in 1..Len(input) : Len(VolumeGroupsAt(input, i)) > 0 }
    IN IF starts = {} THEN << >>
       ELSE LET groups == VolumeGroupsAt(input, CHOOSE i \in starts : \A k \in starts : i <= k)
            IN << [value |-> ParseFloat(groups[1]).value,
                   unit |-> VolumeUnit(ToLowerCase(Trim(groups[2])))] >>

\* VOLUME_TO_ML (constants.ts 396-406), in ten-thousandths; the factor of
\* mL for a unit that is not a key.
VolumeFactor(unit) ==
    IF unit \in { << "o", "z" >>, << "O", "Z" >>,
                  << "f", "l", " ", "o", "z" >>, << "F", "L", " ", "O", "Z" >> }
    THEN 295735
    ELSE IF unit \in { << "L" >>, << "l" >> } THEN 10000000
    ELSE 10000

\* convertToML (textMatching.ts 1105-1108): the volume in ten-thousandths
\* of a millilitre, of a value that has at most two decimals.
convertToML(value, unit) == ((value \div 10) * VolumeFactor(unit)) \div 100

\* The volumes of one unit found in the text (textMatching.ts 825-847).
VolumesOf(ocrText, pattern, unit) ==
    LET groups == MatchAll(ocrText, pattern)
    IN [k \in 1..Len(groups) |-> [value |-> ParseFloat(groups[k]).value, unit |-> unit]]

VolumeChars(volume) == NumberToChars(Number(volume.value)) \o << " " >> \o volume.unit

\* The comparison of matchNetContents (textMatching.ts 849-889).
NetContentsVerdict(expected, expectedML, foundVolumes) ==
    LET Close(found) ==
            Abs(expectedML - convertToML(found.value, found.unit)) * volumeToleranceInverse
                <= expectedML
        close == SelectSeq(foundVolumes, Close)
    IN IF Len(close) > 0
       THEN FieldResult("netContents", "match", expected, VolumeChars(close[1]), 100,
                        "Net contents verified")
       ELSE IF Len(foundVolumes) > 0
       THEN FieldResult("netContents", "mismatch", expected, VolumeChars(foundVolumes[1]), 0,
                        "Net contents does not match")
       ELSE FieldResult("netContents", "not_found", expected, << >>, 0,
                        "Net contents not detected")

\* matchNetContents (textMatching.ts 785-890)
matchNetContents(expected, ocrText) ==
    CHOOSE result \in
        { IF Len(expectedParsed) = 0
          THEN FieldResult("netContents", "not_found", expected, << >>, 0,
                           "Invalid volume format")
          ELSE NetContentsVerdict(expected,
                                  convertToML(expectedParsed[1].value, expectedParsed[1].unit),
                                  foundVolumes) :
              expectedParsed \in { parseVolume(expected) },
              foundVolumes \in { VolumesOf(ocrText, VOLUME_ML_PATTERN, << "m", "L" >>)
                                 \o VolumesOf(ocrText, VOLUME_OZ_PATTERN, << "o", "z" >>)
                                 \o VolumesOf(ocrText, VOLUME_L_PATTERN, << "L" >>) } } : TRUE

\* The fields that gate the overall status (textMatching.ts 1114).
RequiredFields == { "brandName", "productType", "alcoholContent" }

\* Mutant: every field gates the overall status.
determineOverallStatus_EveryField(fields) ==
    IF \E k \in 1..Len(fields) : fields[k].status # "match" THEN "fail" ELSE "pass"

\* determineOverallStatus (textMatching.ts 1113-1123)
determineOverallStatus(fields) ==
    IF \E k \in 1..Len(fields) :
           fields[k].field \in RequiredFields /\ fields[k].status # "match"
    THEN "fail"
    ELSE "pass"

\* compareFields (textMatching.ts 101-198) of an OCR result that carries the
\* text and the word blocks.
compareFields(formData, ocrResult) ==
    CHOOSE result \in
        { [overallStatus |-> determineOverallStatus(fields), fields |-> fields,
           rawOCRText |-> ocrResult.text, processingTime |-> 0] :
              fields \in
                  { << matchBrandName(formData.brandName, ocrResult.text),
                       matchProductType(formData.productType, ocrResult.text),
                       matchAlcoholContent(formData.alcoholContent, ocrResult.text,
                                           ocrResult.blocks) >>
                    \o (IF Len(formData.netContents) > 0
                        THEN << matchNetContents(formData.netContents, ocrResult.text) >>
                        ELSE << >>)
                    \o << matchGovernmentWarning(ocrResult.text) >> } } : TRUE

(***************************************************************************)
(* compareFields on sample forms and labels, and the overall status.       *)
(***************************************************************************)

\* The brand names of the forms.
BrandNames ==
    { << "O", "l", "d", " ", "T", "o", "m" >>,
      << "Z", "z", "z" >> }

\* The product types of the forms.
ProductTypes ==
    { << "B", "o", "u", "r", "b", "o", "n" >>,
      << "I", "P", "A" >> }

\* The alcohol contents of the forms.
AlcoholContents ==
    { << "4", "5" >>,
      << "5", "%" >> }

\* The net contents of the forms; the field is optional.
NetContentsValues ==
    { << >>,
      << "7", "5", "0", " ", "m", "L" >>,
      << "1", "2", " ", "o", "z" >> }

\* The texts the OCR engine reads from the labels.
LabelTexts ==
    { << "O", "L", "D", " ", "T", "O", "M", " ", "B", "O", "U", "R", "B", "O", "N", " ", "4", "5", "%", " ", "A", "L", "C", "/", "V", "O", "L", " ", "7", "5", "0", " ", "M", "L" >>,
      << "O", "L", "D", " ", "T", "O", "M", " ", "K", "E", "N", "T", "U", "C", "K", "Y", " ", "B", "O", "U", "R", "B", "O", "N", " ", "4", "5", " ", "P", "R", "O", "O", "F", " ", "1", "2", " ", "F", "L", " ", "O", "Z", " ", "G", "O", "V", "E", "R", "N", "M", "E", "N", "T", " ", "W", "A", "R", "N", "I", "N", "G", " ", "S", "U", "R", "G", "E", "O", "N", " ", "G", "E", "N", "E", "R", "A", "L", " ", "P", "R", "E", "G", "N", "A", "N", "T", " ", "I", "M", "P", "A", "I", "R", "S" >>,
      << "T", "O", "M", " ", "G", "I", "N", " ", "5", "%", " ", "G", "O", "V", "E", "R", "N", "M", "E", "N", "T", " ", "W", "A", "R", "N", "I", "N", "G", " ", "S", "U", "R", "G", "E", "O", "N", " ", "G", "E", "N", "E", "R", "A", "L", " ", "P", "R", "E", "G", "N", "A", "N", "T", " ", "I", "M", "P", "A", "I", "R", "S", " ", "3", "5", "5", " ", "M", "L" >>,
      << "O", "L", "D", " ", "T", "0", "M", " ", "I", "N", "D", "I", "A", " ", "P", "A", "L", "E", " ", "A", "L", "E", " ", "5", "%", " ", "A", "B", "V", " ", "1", "2", " ", "F", "L", " ", "O", "Z", " ", "P", "R", "E", "G", "N", "A", "N", "T" >>,
      << "B", "O", "U", "R", "B", "O", "N", " ", "O", "L", "D", " ", "T", "O", "M", " ", "5", ".", "0", "%", " ", "7", "5", "0", "M", "L" >>,
      << >> }

\* The inputs of compareFields: a form, and an OCR result with the text and
\* with the words of the text or without them.
CompareInputs ==
    { [formData |-> [brandName |-> b, productType |-> p, alcoholContent |-> a,
                     netContents |-> n],
       ocrResult |-> [text |-> t,
                      blocks |-> IF c = 0 THEN << >> ELSE WordsOf(t, c)]] :
         b \in BrandNames, p \in ProductTypes, a \in AlcoholContents,
         n \in NetContentsValues, t \in LabelTexts, c \in {0} \cup WordConfidences }

InitCompare ==
    /\ IdleSingleton /\ IdleReq /\ IdleRegExp
    /\ args \in CompareInputs
    /\ ret = << >>
    /\ pc = {}

\* The verification route calls compareFields on the form and the OCR result.
CompareFields ==
    /\ pc = {}
    /\ ret' = compareFields(args.formData, args.ocrResult)
    /\ pc' = {"compared"}
    /\ UNCHANGED << singletonVars, req, args, lastIndex >>

NextCompare == CompareFields

SpecCompare == InitCompare /\ [][NextCompare]_vars

\* The statuses of a field record.
FieldStatuses == { "match", "mismatch", "not_found" }

\* The fields that do not gate the overall status.
OptionalFields == { "netContents", "governmentWarning" }

\* The record of every required field is there and has status match.
RequiredAllMatch(fields) ==
    \A f \in RequiredFields :
        /\ \E k \in 1..Len(fields) : fields[k].field = f
        /\ \A k \in 1..Len(fields) : fields[k].field = f => fields[k].status = "match"

\* C1: for every result of compareFields, overallStatus is pass if and only
\* if the brandName, productType and alcoholContent records all have status
\* match, and giving the netContents or the governmentWarning record any
\* other status leaves the overall status as it is.
C1_OverallStatus ==
    pc = {"compared"} =>
        /\ ret.overallStatus \in { "pass", "fail" }
        /\ ret.overallStatus = "pass" <=> RequiredAllMatch(ret.fields)
        /\ \A k \in 1..Len(ret.fields) : \A s \in FieldStatuses :
               ret.fields[k].field \in OptionalFields =>
                   determineOverallStatus([ret.fields EXCEPT ![k].status = s])
                       = ret.overallStatus

\* A result that passes although an optional field did not match.
C1_Witness ==
    /\ pc = {"compared"}
    /\ ret.overallStatus = "pass"
    /\ \E k \in 1..Len(ret.fields) :
           ret.fields[k].field \in OptionalFields /\ ret.fields[k].status # "match"

(***************************************************************************)
(* matchAlcoholContent on the texts "X% ALC/VOL".                          *)
(***************************************************************************)

\* The values X and E in thousandths: multiples of one half over the whole
\* valid range 0.5 to 95, on both sides of the limit of the generic
\* percentage pattern.
AlcVolValues == { 500, 4000, 4500, 6000, 12000, 20000, 20500, 45000, 95000 }

AlcVolAfter == << "%", " ", "A", "L", "C", "/", "V", "O", "L" >>

AlcVolText(value) == NumberToChars(Number(value)) \o AlcVolAfter

AlcVolInputs ==
    { [expectedValue |-> e, foundValue |-> f,
       expected |-> NumberToChars(Number(e)) \o sign,
       ocrText |-> AlcVolText(f),
       blocks |-> IF c = 0 THEN << >> ELSE WordsOf(AlcVolText(f), c)] :
         e \in AlcVolValues, f \in AlcVolValues,
         sign \in { << >>, << "%" >> }, c \in {0} \cup WordConfidences }

InitAlcVol ==
    /\ IdleSingleton /\ IdleReq /\ IdleRegExp
    /\ args \in AlcVolInputs
    /\ ret = << >>
    /\ pc = {}

SpecAlcVol == InitAlcVol /\ [][NextAlcohol]_vars

\* C11: for every expected value E and every text "X% ALC/VOL" with X in
\* the range 0.5 to 95, matchAlcoholContent returns match with found "X%"
\* when |X - E| <= 0.5 and mismatch with found "X%" otherwise, and never
\* not_found.
C11_AlcVolExtracted ==
    pc = {"matched"} =>
        /\ ret.status = IF Abs(args.foundValue - args.expectedValue) <= exactTolerance
                        THEN "match" ELSE "mismatch"
        /\ ret.found = FoundChars(args.foundValue)

\* The same for the values X up to 20 and a call without word blocks.
C11_UpToGenericLimit ==
    (pc = {"matched"} /\ args.foundValue <= MaxGenericABV /\ Len(args.blocks) = 0) =>
        /\ ret.status = IF Abs(args.foundValue - args.expectedValue) <= exactTolerance
                        THEN "match" ELSE "mismatch"
        /\ ret.found = FoundChars(args.foundValue)

C11_NotFoundAboveLimit ==
    /\ pc = {"matched"}
    /\ args.foundValue > MaxGenericABV
    /\ Len(args.blocks) = 0
    /\ ret.status = "not_found"

(***************************************************************************)
(* matchNetContents on forms and labels that spell volumes out.            *)
(***************************************************************************)

\* A volume as a form or a label prints it: the value in thousandths of
\* its unit, the text after the number, and the unit that text means.
Volume(value, after, unit) ==
    [value |-> value, unit |-> unit, chars |-> NumberToChars(Number(value)) \o after]

\* The volumes of the forms, in the spellings a form may use.
ExpectedVolumes ==
    { Volume(12000, << " ", "o", "z" >>, << "o", "z" >>),
      Volume(12000, << " ", "f", "l", " ", "o", "z" >>, << "o", "z" >>),
      Volume(12000, << " ", "o", "u", "n", "c", "e", "s" >>, << "o", "z" >>),
      Volume(355000, << " ", "m", "L" >>, << "m", "L" >>),
      Volume(355000, << "m", "l" >>, << "m", "L" >>),
      Volume(500000, << " ", "m", "L" >>, << "m", "L" >>),
      Volume(1000, << " ", "L" >>, << "L" >>),
      Volume(1000, << " ", "l", "i", "t", "e", "r" >>, << "L" >>),
      Volume(1500, << " ", "L" >>, << "L" >>) }

\* The volumes of the labels.
LabelVolumes ==
    { Volume(1000, << " ", "m", "L" >>, << "m", "L" >>),
      Volume(355000, << " ", "m", "L" >>, << "m", "L" >>),
      Volume(500000, << " ", "m", "L" >>, << "m", "L" >>),
      Volume(12000, << " ", "F", "L", ".", " ", "O", "Z", "." >>, << "o", "z" >>),
      Volume(17000, << " ", "F", "L", ".", " ", "O", "Z", "." >>, << "o", "z" >>),
      Volume(500, << " ", "L" >>, << "L" >>),
      Volume(1000, << " ", "L" >>, << "L" >>),
      Volume(1500, << " ", "L" >>, << "L" >>) }

\* Expected values parseVolume cannot parse: no number, no unit, nothing.
UnparseableVolumes ==
    { << "i", "n", "v", "a", "l", "i", "d" >>,
      << "7", "5", "0" >>,
      << >> }

\* The labels: no volume, one volume, or two volumes in either order.
VolumeLabels ==
    { << >> } \cup { << a >> : a \in LabelVolumes }
              \cup { << a, b >> : a \in LabelVolumes, b \in LabelVolumes }

LabelChars(label) ==
    IF Len(label) = 0 THEN << >>
    ELSE IF Len(label) = 1 THEN label[1].chars
    ELSE label[1].chars \o << " " >> \o label[2].chars

NetContentsInputs ==
    { [expected |-> e.chars, parseable |-> TRUE, expectedVolume |-> e,
       label |-> l, ocrText |-> LabelChars(l)] :
         e \in ExpectedVolumes, l \in VolumeLabels }
    \cup
    { [expected |-> u, parseable |-> FALSE, expectedVolume |-> Volume(0, u, << >>),
       label |-> l, ocrText |-> LabelChars(l)] :
         u \in UnparseableVolumes, l \in VolumeLabels }

InitNetContents ==
    /\ IdleSingleton /\ IdleReq /\ IdleRegExp
    /\ args \in NetContentsInputs
    /\ ret = << >>
    /\ pc = {}

\* compareFields (textMatching.ts 167-178) calls matchNetContents.
MatchNetContents ==
    /\ pc = {}
    /\ ret' = matchNetContents(args.expected, args.ocrText)
    /\ pc' = {"matched"}
    /\ UNCHANGED << singletonVars, req, args, lastIndex >>

NextNetContents == MatchNetContents

SpecNetContents == InitNetContents /\ [][NextNetContents]_vars

\* The millilitres of a volume of the form or the label, with the factors
\* of VOLUME_TO_ML for the unit it means.
MillilitresOf(volume) == convertToML(volume.value, volume.unit)

\* The volume of the label is within 2% of the expected volume.
WithinVolumeTolerance(volume) ==
    Abs(MillilitresOf(args.expectedVolume) - MillilitresOf(volume)) * volumeToleranceInverse
        <= MillilitresOf(args.expectedVolume)

SomeVolumeWithin == \E k \in 1..Len(args.label) : WithinVolumeTolerance(args.label[k])

NetContentsStatuses ==
    /\ ret.status = "match" <=> (args.parseable /\ SomeVolumeWithin)
    /\ ret.status = "mismatch" <=> (args.parseable /\ Len(args.label) > 0 /\ ~SomeVolumeWithin)
    /\ ret.status = "not_found" <=> (~args.parseable \/ Len(args.label) = 0)

\* C12: matchNetContents converts the expected volume and the volumes of
\* the text to millilitres (oz = 29.5735 mL, L = 1000 mL) and returns match
\* iff some found volume is within 2% of the expected one, mismatch iff
\* volumes were found and none is within 2%, and not_found iff no volume
\* was found or the expected value cannot be parsed.
C12_NetContentsStatuses == pc = {"matched"} => NetContentsStatuses

\* The unit parseVolume gives the expected value is a key of VOLUME_TO_ML.
ExpectedUnitKnown ==
    ~args.parseable
        \/ parseVolume(args.expected)[1].unit \in { << "m", "L" >>, << "o", "z" >>, << "L" >> }

\* The statuses of C12 for the forms whose unit parseVolume recognises.
C12_KnownUnits == (pc = {"matched"} /\ ExpectedUnitKnown) => NetContentsStatuses

\* A form that spells the unit out gets a mismatch for its own volume.
C12_SpelledUnitMismatch ==
    /\ pc = {"matched"}
    /\ ~ExpectedUnitKnown
    /\ SomeVolumeWithin
    /\ ret.status = "mismatch"

\* The distance in millilitres between a volume of the label and the
\* expected volume.
VolumeDistance(volume) == Abs(MillilitresOf(args.expectedVolume) - MillilitresOf(volume))

\* The volume is a closest one of the label.
IsClosest(volume) ==
    \A k \in 1..Len(args.label) : VolumeDistance(volume) <= VolumeDistance(args.label[k])

\* `${value} ${unit}` of a volume of the label (textMatching.ts 874).
ReportedChars(volume) == VolumeChars([value |-> volume.value, unit |-> volume.unit])

\* C13: when matchNetContents returns mismatch, the volume in found is the
\* found volume whose millilitre value is closest to the expected volume,
\* whatever the order and the units of the volumes in the text.
C13_MismatchReportsClosest ==
    (pc = {"matched"} /\ ret.status = "mismatch") =>
        \E k \in 1..Len(args.label) :
            IsClosest(args.label[k]) /\ ret.found = ReportedChars(args.label[k])

\* A mismatch, for a unit parseVolume recognises, that reports the first
\* found volume although another one is strictly closer.
C13_FirstNotClosest ==
    /\ pc = {"matched"} /\ ret.status = "mismatch" /\ ExpectedUnitKnown
    /\ Len(args.label) = 2
    /\ ret.found = ReportedChars(args.label[1])
    /\ VolumeDistance(args.label[2]) < VolumeDistance(args.label[1])

(***************************************************************************)
(* compareFields on forms whose values cannot be parsed.                   *)
(***************************************************************************)

\* Alcohol contents of a form: not a number, nothing, and a number.
MalformedAlcoholContents ==
    { << "a", "b", "c" >>, << >>, << "5", "%" >> }

\* Net contents of a form: no number, no unit, and a volume.
MalformedNetContents ==
    { << "i", "n", "v", "a", "l", "i", "d" >>, << "7", "5", "0" >>, << "7", "5", "0", " ", "m", "L" >> }

MalformedInputs ==
    { [formData |-> [brandName |-> b, productType |-> p, alcoholContent |-> a,
                     netContents |-> n],
       ocrResult |-> [text |-> t,
                      blocks |-> IF c = 0 THEN << >> ELSE WordsOf(t, c)]] :
         b \in BrandNames, p \in ProductTypes, a \in MalformedAlcoholContents,
         n \in MalformedNetContents, t \in LabelTexts, c \in {0} \cup WordConfidences }

InitMalformed ==
    /\ IdleSingleton /\ IdleReq /\ IdleRegExp
    /\ args \in MalformedInputs
    /\ ret = << >>
    /\ pc = {}

SpecMalformed == InitMalformed /\ [][NextCompare]_vars

\* The record of a field in a result of compareFields.
RecordsOf(fields, field) ==
    LET Is(r) == r.field = field IN SelectSeq(fields, Is)

AlcoholUnparseable == ~ParseFloat(RemoveFirst(args.formData.alcoholContent, "%")).ok
NetContentsUnparseable == Len(parseVolume(args.formData.netContents)) = 0

\* C14: when an expected value cannot be parsed (net contents without a
\* number followed by a unit, alcohol content that is not a number), the
\* record of that field has status not_found, and compareFields still
\* returns the records of all the other fields.
C14_UnparseableNotFound ==
    pc = {"compared"} =>
        /\ \A f \in RequiredFields \cup OptionalFields : Len(RecordsOf(ret.fields, f)) = 1
        /\ NetContentsUnparseable =>
               /\ RecordsOf(ret.fields, "netContents")[1].status = "not_found"
               /\ RecordsOf(ret.fields, "netContents")[1].message = "Invalid volume format"
        /\ AlcoholUnparseable =>
               RecordsOf(ret.fields, "alcoholContent")[1].status = "not_found"

\* The part of C14 about the net contents and the other fields.
C14_NetContentsOnly ==
    pc = {"compared"} =>
        /\ \A f \in RequiredFields \cup OptionalFields : Len(RecordsOf(ret.fields, f)) = 1
        /\ NetContentsUnparseable =>
               /\ RecordsOf(ret.fields, "netContents")[1].status = "not_found"
               /\ RecordsOf(ret.fields, "netContents")[1].message = "Invalid volume format"

\* An alcohol content that is not a number is reported as a mismatch.
C14_AlcoholMismatch ==
    /\ pc = {"compared"}
    /\ AlcoholUnparseable
    /\ RecordsOf(ret.fields, "alcoholContent")[1].status = "mismatch"

\* The OCR engine read nothing from the label.
EmptyText == Len(args.ocrResult.text) = 0

\* C15: when the OCR text is empty, compareFields reports status not_found
\* for every field (net contents when supplied) and overallStatus fail, for
\* any expected values.
C15_EmptyTextNotFound ==
    (pc = {"compared"} /\ EmptyText) =>
        /\ \A k \in 1..Len(ret.fields) : ret.fields[k].status = "not_found"
        /\ ret.overallStatus = "fail"

\* The same for every field but the product type.
C15_ExceptProductType ==
    (pc = {"compared"} /\ EmptyText) =>
        /\ \A k \in 1..Len(ret.fields) :
               ret.fields[k].field # "productType" => ret.fields[k].status = "not_found"
        /\ ret.overallStatus = "fail"

\* With an empty text the product type is reported as verified.
C15_ProductTypeVerified ==
    /\ pc = {"compared"} /\ EmptyText
    /\ RecordsOf(ret.fields, "productType")[1].status = "match"
    /\ RecordsOf(ret.fields, "productType")[1].confidence = 95

(***************************************************************************)
(* matchGovernmentWarning on labels that print some of the phrases.        *)
(***************************************************************************)

\* The six phrases as a label prints them: capitals, punctuation, and more
\* than one blank between words.
PrintedPhrases ==
    << << "G", "O", "V", "E", "R", "N", "M", "E", "N", "T", " ", "W", "A", "R", "N", "I", "N", "G", ":" >>,
       << "S", "u", "r", "g", "e", "o", "n", " ", "G", "e", "n", "e", "r", "a", "l", "," >>,
       << "(", "P", "R", "E", "G", "N", "A", "N", "T", ")" >>,
       << "B", "i", "r", "t", "h", " ", " ", "D", "e", "f", "e", "c", "t", "s", "." >>,
       << "I", "M", "P", "A", "I", "R", "S" >>,
       << "h", "e", "a", "l", "t", "h", " ", "p", "r", "o", "b", "l", "e", "m", "s", "!" >> >>

\* What a label prints where it does not print a phrase.
FillerWord == << "B", "r", "e", "w", "i", "n", "g" >>

\* The styles of a label: the phrases as printed, or as the code lists them.
PhraseStyles == { PrintedPhrases, WARNING_REQUIRED_PHRASES }

\* The text of a label that prints the phrases of a set, from phrase k on.
RECURSIVE WarningTextFrom(_, _, _)
WarningTextFrom(present, style, k) ==
    IF k > Len(style) THEN << >>
    ELSE (IF k \in present THEN style[k] ELSE FillerWord)
         \o (IF k < Len(style) THEN << " " >> ELSE << >>)
         \o WarningTextFrom(present, style, k + 1)

WarningInputs ==
    { [present |-> present, ocrText |-> WarningTextFrom(present, style, 1)] :
         present \in SUBSET (1..Len(WARNING_REQUIRED_PHRASES)), style \in PhraseStyles }

InitWarning ==
    /\ IdleSingleton /\ IdleReq /\ IdleRegExp
    /\ args \in WarningInputs
    /\ ret = << >>
    /\ pc = {}

\* compareFields (textMatching.ts 181-189) calls matchGovernmentWarning.
MatchWarning ==
    /\ pc = {}
    /\ ret' = matchGovernmentWarning(args.ocrText)
    /\ pc' = {"matched"}
    /\ UNCHANGED << singletonVars, req, args, lastIndex >>

NextWarning == MatchWarning

SpecWarning == InitWarning /\ [][NextWarning]_vars

\* The number of phrases the label prints.
PhrasesPresent == Cardinality(args.present)

\* The rounded percentages of 0 to 6 phrases out of six.
RoundedPercentages == << 0, 17, 33, 50, 67, 83, 100 >>

\* C16: matchGovernmentWarning returns match iff at least 60% of the six
\* required phrases (4 or more) occur in the normalized text, mismatch iff
\* 1 to 3 occur, not_found iff none occurs, and the confidence is the
\* rounded percentage of the phrases present.
C16_WarningStatuses ==
    pc = {"matched"} =>
        /\ ret.status = "match" <=> PhrasesPresent >= 4
        /\ ret.status = "mismatch" <=> PhrasesPresent \in 1..3
        /\ ret.status = "not_found" <=> PhrasesPresent = 0
        /\ ret.confidence = RoundedPercentages[PhrasesPresent + 1]

\* A label that prints four of the phrases, with capitals and punctuation.
C16_Witness ==
    /\ pc = {"matched"}
    /\ PhrasesPresent = 4
    /\ args.ocrText = WarningTextFrom(args.present, PrintedPhrases, 1)
    /\ ret.status = "match"
    /\ ret.confidence = 67

(***************************************************************************)
(* src/lib/textMatching.ts: the bounding boxes compareFields places in the *)
(* field records.  The finders return boxes of words of the Tesseract      *)
(* result they are given; a result is modelled by the word box they find.  *)
(***************************************************************************)

MaxSide == 2                 \* largest width and height of the images with boxes
FieldMergeThreshold == 10    \* mergeBBoxes(bboxes, 10)
WarningMergeThreshold == 20  \* mergeBBoxes(bboxes, 20)

\* The boxes of matchBrandName, matchProductType, matchAlcoholContent and
\* matchNetContents (textMatching.ts 228-236, 317-325, 595-603, 810-820).
PrimaryFieldBoxes(found, rotationDegrees, imageWidth, imageHeight) ==
    transformPrimaryBBoxes(deduplicateBBoxes(mergeBBoxes(found, FieldMergeThreshold)),
                           rotationDegrees, imageWidth, imageHeight)

\* The boxes of the passes from pass k on, each mapped with the angle of
\* its pass (ocr-core.ts 896-914).
RECURSIVE TransformedFrom(_, _, _, _)
TransformedFrom(allRotationResults, k, imageWidth, imageHeight) ==
    IF k > Len(allRotationResults) THEN << >>
    ELSE [i \in 1..Len(allRotationResults[k].boxes) |->
             transformBBoxToOriginalOrientation(allRotationResults[k].boxes[i],
                                                allRotationResults[k].angle,
                                                imageWidth, imageHeight)]
         \o TransformedFrom(allRotationResults, k + 1, imageWidth, imageHeight)

\* findBBoxesAcrossRotations (ocr-core.ts 877-918)
findBBoxesAcrossRotations(allRotationResults, imageWidth, imageHeight) ==
    IF Len(allRotationResults) = 0 THEN << >>
    ELSE deduplicateBBoxes(TransformedFrom(allRotationResults, 1, imageWidth, imageHeight))

\* The boxes of matchGovernmentWarning (textMatching.ts 907-953): across
\* all rotations when there are any, else the boxes of the primary result.
GovernmentWarningBoxes(found, allRotations, imageWidth, imageHeight) ==
    deduplicateBBoxes(
        mergeBBoxes(IF Len(allRotations) > 0 /\ imageWidth > 0 /\ imageHeight > 0
                    THEN findBBoxesAcrossRotations(allRotations, imageWidth, imageHeight)
                    ELSE found,
                    WarningMergeThreshold))

\* The boxes compareFields places in its five records (textMatching.ts
\* 126-189): the rotation of the primary pass goes to the first four
\* matchers, the rotation results go to matchGovernmentWarning.
FieldBoxes(ocrResult) ==
    [brandName |-> PrimaryFieldBoxes(ocrResult.found, ocrResult.rotationDegrees,
                                     ocrResult.imageWidth, ocrResult.imageHeight),
     productType |-> PrimaryFieldBoxes(ocrResult.found, ocrResult.rotationDegrees,
                                       ocrResult.imageWidth, ocrResult.imageHeight),
     alcoholContent |-> PrimaryFieldBoxes(ocrResult.found, ocrResult.rotationDegrees,
                                          ocrResult.imageWidth, ocrResult.imageHeight),
     netContents |-> PrimaryFieldBoxes(ocrResult.found, ocrResult.rotationDegrees,
                                       ocrResult.imageWidth, ocrResult.imageHeight),
     governmentWarning |-> GovernmentWarningBoxes(ocrResult.found, ocrResult.allRotations,
                                                  ocrResult.imageWidth, ocrResult.imageHeight)]

\* The rotation results of an OCR result: none (a client that sends only
\* the primary result), or one pass with the word box of that pass.
RotationResults(w, h) ==
    { << >> } \cup
    UNION { { << [angle |-> a, boxes |-> << c >>] >> :
                  c \in BoxesIn(CanvasWidth(a, w, h), CanvasHeight(a, w, h)) } : a \in Angles }

\* The OCR results: the primary pass at any angle with a word box inside
\* its canvas.
BoxInputs ==
    UNION { UNION { { [imageWidth |-> w, imageHeight |-> h, rotationDegrees |-> a,
                       found |-> << b >>, allRotations |-> r] :
                          b \in BoxesIn(CanvasWidth(a, w, h), CanvasHeight(a, w, h)),
                          r \in RotationResults(w, h) } :
                    a \in Angles } :
            w \in 1..MaxSide, h \in 1..MaxSide }

InitBoxes ==
    /\ IdleSingleton /\ IdleReq /\ IdleRegExp
    /\ args \in BoxInputs
    /\ ret = << >>
    /\ pc = {}

\* compareFields (textMatching.ts 101-198), the boxes of its records.
CompareFieldsBoxes ==
    /\ pc = {}
    /\ ret' = FieldBoxes(args)
    /\ pc' = {"compared"}
    /\ UNCHANGED << singletonVars, req, args, lastIndex >>

NextBoxes == CompareFieldsBoxes

SpecBoxes == InitBoxes /\ [][NextBoxes]_vars

\* The box lies in the frame of the un-rotated image.
InFrame(box) ==
    /\ 0 <= box.x0 /\ box.x0 < box.x1 /\ box.x1 <= args.imageWidth
    /\ 0 <= box.y0 /\ box.y0 < box.y1 /\ box.y1 <= args.imageHeight

\* The boxes are the word box of a pass mapped back with the angle of that
\* pass, and lie in the frame.
MappedBack(boxes, source, angle) ==
    /\ boxes = << transformBBoxToOriginalOrientation(source, angle,
                                                     args.imageWidth, args.imageHeight) >>
    /\ \A k \in 1..Len(boxes) : InFrame(boxes[k])

PrimaryFieldsMappedBack ==
    \A f \in { "brandName", "productType", "alcoholContent", "netContents" } :
        MappedBack(ret[f], args.found[1], args.rotationDegrees)

\* C17: every box compareFields places in a field record is in the frame
\* of the un-rotated image: a box found in the pass of angle theta is
\* mapped back with the transform for theta, for all five fields, the
\* government warning included whether it uses the rotation results or
\* falls back to the primary result, and lies within the image.
C17_BoxesInOriginalFrame ==
    pc = {"compared"} =>
        /\ PrimaryFieldsMappedBack
        /\ IF Len(args.allRotations) > 0
           THEN MappedBack(ret.governmentWarning, args.allRotations[1].boxes[1],
                           args.allRotations[1].angle)
           ELSE MappedBack(ret.governmentWarning, args.found[1], args.rotationDegrees)

\* The same without the fallback of the government warning.
C17_ExceptWarningFallback ==
    pc = {"compared"} =>
        /\ PrimaryFieldsMappedBack
        /\ Len(args.allRotations) > 0 =>
               MappedBack(ret.governmentWarning, args.allRotations[1].boxes[1],
                          args.allRotations[1].angle)

\* The fallback returns the box of a rotated primary pass as it found it,
\* outside the image.
C17_FallbackOutsideFrame ==
    /\ pc = {"compared"}
    /\ Len(args.allRotations) = 0
    /\ args.rotationDegrees = 90
    /\ ret.governmentWarning = args.found
    /\ ~InFrame(ret.governmentWarning[1])

(***************************************************************************)
(* src/lib/ocr-core.ts and src/lib/textMatching.ts: matchNetContents with  *)
(* a raw Tesseract result.  findPatternBBoxes tests the words with the     *)
(* shared global patterns, whose lastIndex outlives the call.              *)
(***************************************************************************)

MaxCalls == 3       \* calls of matchNetContents with the same arguments
MaxWords == 2       \* words of the raw Tesseract result

\* RegExp.prototype.test of a global pattern: the search starts at
\* lastIndex; a match leaves lastIndex after it, a failure leaves 0.
RegExpTest(text, pattern, from) ==
    CHOOSE r \in
        { IF Len(found) = 0 THEN [matched |-> FALSE, lastIndex |-> 0]
          ELSE [matched |-> TRUE, lastIndex |-> found[1].end - 1] :
              found \in { MatchesFrom(text, from + 1, pattern) } } : TRUE

\* The loop of findPatternBBoxes over the words from word k on (ocr-core.ts
\* 644-649): the indexes of the words whose box is pushed, and the
\* lastIndex the pattern is left with.
RECURSIVE TestWords(_, _, _, _, _)
TestWords(words, k, pattern, from, bboxes) ==
    IF Len(bboxes) >= 0 /\ k > Len(words) THEN [bboxes |-> bboxes, lastIndex |-> from]
    ELSE CHOOSE r \in
             { TestWords(words, k + 1, pattern, t.lastIndex,
                         IF t.matched THEN Append(bboxes, k) ELSE bboxes) :
                   t \in { RegExpTest(words[k], pattern, from) } } : TRUE

\* findPatternBBoxes (ocr-core.ts 620-655)
findPatternBBoxes(pattern, words, from) == TestWords(words, 1, pattern, from, << >>)

\* String.prototype.matchAll copies the pattern together with its
\* lastIndex, so the search starts there; the pattern itself is left alone.
VolumesOfFrom(ocrText, pattern, unit, from) ==
    CHOOSE volumes \in
        { [k \in 1..Len(groups) |-> [value |-> ParseFloat(groups[k]).value, unit |-> unit]] :
              groups \in { MatchAllFrom(ocrText, from + 1, pattern) } } : TRUE

\* The record matchNetContents returns, with the boxes it found: the
\* not_found records carry no boxes (textMatching.ts 855-889).
WithBoxes(result, bboxes) ==
    IF result.status = "not_found" THEN result ELSE [result EXCEPT !.bboxes = bboxes]

\* The body of matchNetContents after the boxes are found (textMatching.ts
\* 823-889).
NetContentsAfterBoxes(expected, ocrText, ml, oz, l) ==
    [result |->
         WithBoxes(NetContentsVerdict(expected,
                                      convertToML(parseVolume(expected)[1].value,
                                                  parseVolume(expected)[1].unit),
                                      VolumesOfFrom(ocrText, VOLUME_ML_PATTERN, << "m", "L" >>,
                                                    ml.lastIndex)
                                      \o VolumesOfFrom(ocrText, VOLUME_OZ_PATTERN, << "o", "z" >>,
                                                       oz.lastIndex)
                                      \o VolumesOfFrom(ocrText, VOLUME_L_PATTERN, << "L" >>,
                                                       l.lastIndex)),
                   ml.bboxes \o oz.bboxes \o l.bboxes),
     lastIndex |-> [ml |-> ml.lastIndex, oz |-> oz.lastIndex, l |-> l.lastIndex]]

\* matchNetContents (textMatching.ts 785-890) with a raw Tesseract result
\* of the given words: the record it returns and the lastIndex values it
\* leaves.  The boxes are named by the indexes of their words.
matchNetContentsWithWords(expected, ocrText, words, from) ==
    IF Len(parseVolume(expected)) = 0
    THEN [result |-> FieldResult("netContents", "not_found", expected, << >>, 0,
                                 "Invalid volume format"),
          lastIndex |-> from]
    ELSE CHOOSE r \in
             { NetContentsAfterBoxes(expected, ocrText, ml, oz, l) :
                   ml \in { findPatternBBoxes(VOLUME_ML_PATTERN, words, from.ml) },
                   oz \in { findPatternBBoxes(VOLUME_OZ_PATTERN, words, from.oz) },
                   l \in { findPatternBBoxes(VOLUME_L_PATTERN, words, from.l) } } : TRUE

\* The words Tesseract reads on a label.
LabelWords ==
    { << "7", "5", "0", "m", "L" >>, << "7", "5", "0" >>, << "m", "L" >>, << "1", "2", "o", "z" >>, << "1", "L" >>, << "N", "E", "T" >> }

\* The word lists of up to MaxWords words.
RECURSIVE WordLists(_)
WordLists(n) ==
    IF n = 0 THEN { << >> }
    ELSE WordLists(n - 1)
         \cup { Append(ws, w) : ws \in { l \in WordLists(n - 1) : Len(l) = n - 1 }, w \in LabelWords }

ExpectedNetContents ==
    { << "7", "5", "0", " ", "m", "L" >>, << "1", "2", " ", "o", "z" >>, << "i", "n", "v", "a", "l", "i", "d" >> }

\* The arguments: the OCR text is the words joined by blanks.
WordInputs ==
    { [expected |-> e, words |-> ws, ocrText |-> Join(ws)] :
         e \in ExpectedNetContents, ws \in WordLists(MaxWords) }

InitCalls ==
    /\ IdleSingleton /\ IdleReq /\ IdleRegExp
    /\ args \in WordInputs
    /\ ret = << >>
    /\ pc = {}

\* One more call of matchNetContents with the same arguments
\* (compareFields, textMatching.ts 167-178).
CallMatchNetContents ==
    /\ Len(ret) < MaxCalls
    /\ ret' = Append(ret, matchNetContentsWithWords(args.expected, args.ocrText,
                                                   args.words, lastIndex).result)
    /\ lastIndex' = matchNetContentsWithWords(args.expected, args.ocrText,
                                              args.words, lastIndex).lastIndex
    /\ pc' = {"called"}
    /\ UNCHANGED << singletonVars, req, args >>

NextCalls == CallMatchNetContents

SpecCalls == InitCalls /\ [][NextCalls]_vars

\* C18: the matchers are pure functions of their arguments: two calls of
\* matchNetContents with equal arguments return equal results, and no
\* state, the lastIndex of the shared global patterns included, carries
\* over between calls.
C18_EqualResults ==
    \A i \in 1..Len(ret) : \A j \in 1..Len(ret) : ret[i] = ret[j]

\* Without a word that a volume pattern matches, the calls return equal
\* results.
C18_NoMatchingWord ==
    (\A k \in 1..Len(args.words) :
         /\ ~RegExpTest(args.words[k], VOLUME_ML_PATTERN, 0).matched
         /\ ~RegExpTest(args.words[k], VOLUME_OZ_PATTERN, 0).matched
         /\ ~RegExpTest(args.words[k], VOLUME_L_PATTERN, 0).matched)
        => C18_EqualResults /\ IdleRegExp

\* The first call does not find the volume of the label and the second
\* call, with the same arguments, verifies it.
C18_SecondCallDiffers ==
    /\ Len(ret) = 2
    /\ ret[1].status = "not_found"
    /\ ret[2].status = "match"

(***************************************************************************)
(* src/lib/ocr-server.ts and src/lib/ocr-core.ts: processWithRotations,    *)
(* the loop of recognitions on the Tesseract worker.  ret.calls holds the  *)
(* position of every call, ret.worker the recognize jobs in flight on the  *)
(* worker, each named by its call and its angle.                           *)
(***************************************************************************)

NumRequests == 2        \* verification requests that may run at once
MaxWordCount == 2       \* the words a recognition may read: 0..MaxWordCount

Requests == 1..NumRequests

\* SERVERLESS_ROTATION_ANGLES (ocr-core.ts 15)
SERVERLESS_ROTATION_ANGLES == << 0, 90 >>

\* The candidate angles of a call: ServerOCRProcessor always takes
\* ROTATION_ANGLES (ocr-server.ts 124), OCRProcessor the reduced set in a
\* serverless environment (ocr-core.ts 55).
AngleSets == { ROTATION_ANGLES, SERVERLESS_ROTATION_ANGLES }

NoCall == [pc |-> "none", angles |-> << >>, issued |-> 0, attempts |-> << >>]

NewCall(angles) == [pc |-> "start", angles |-> angles, issued |-> 0, attempts |-> << >>]

\* Mutant: the loop issues the next recognition without awaiting the last.
AtLoopTop_NoAwait(call) ==
    call.pc \in { "loop", "recognizing" } /\ call.issued < Len(call.angles)

\* The call is at the top of the loop body with an angle left: the await
\* of the previous recognition has returned (ocr-server.ts 124, ocr-core.ts 68).
AtLoopTop(call) ==
    call.pc = "loop" /\ call.issued < Len(call.angles)

\* One call of processWithRotations.
InitRotations ==
    /\ IdleSingleton /\ IdleReq /\ IdleRegExp
    /\ \E angles \in AngleSets : args = [q \in Requests |-> IF q = 1 THEN angles ELSE << >>]
    /\ ret = [calls |-> [q \in Requests |-> IF q = 1 THEN NewCall(args[q]) ELSE NoCall],
              worker |-> {}]
    /\ pc = {}

\* Two requests in processImageServerSide on the singleton processor
\* (ocr-server.ts 488-494).
InitConcurrent ==
    /\ IdleSingleton /\ IdleReq /\ IdleRegExp
    /\ args = [q \in Requests |-> ROTATION_ANGLES]
    /\ ret = [calls |-> [q \in Requests |-> NewCall(args[q])], worker |-> {}]
    /\ pc = {}

\* The image is read (ocr-server.ts 108-122, ocr-core.ts 61-65).
ReadImage(q) ==
    /\ ret.calls[q].pc = "start"
    /\ ret' = [ret EXCEPT !.calls[q].pc = "loop"]
    /\ UNCHANGED << singletonVars, req, args, pc, lastIndex >>

\* The loop body up to the await: the image is rotated and
\* worker.recognize is called (ocr-server.ts 124-142, ocr-core.ts 68-82).
IssueRecognize(q) ==
    /\ AtLoopTop(ret.calls[q])
    /\ ret' = [ret EXCEPT !.calls[q].pc = "recognizing",
                          !.calls[q].issued = @ + 1,
                          !.worker = @ \cup { << q, ret.calls[q].angles[ret.calls[q].issued + 1] >> }]
    /\ UNCHANGED << singletonVars, req, args, pc, lastIndex >>

\* A recognition resolves: the attempt is pushed (ocr-server.ts 144-159,
\* ocr-core.ts 84-99).
RecognizeResolves(q) ==
    /\ \E job \in ret.worker, wordCount \in 0..MaxWordCount :
          /\ job[1] = q
          /\ ret' = [ret EXCEPT !.calls[q].pc = "loop",
                                !.calls[q].attempts =
                                    Append(@, [angle |-> job[2], wordCount |-> wordCount]),
                                !.worker = @ \ { job }]
    /\ UNCHANGED << singletonVars, req, args, pc, lastIndex >>

\* A recognition rejects: the call throws, its other jobs stay with the worker.
RecognizeRejects(q) ==
    /\ \E job \in ret.worker :
          /\ job[1] = q
          /\ ret' = [ret EXCEPT !.calls[q].pc = "failed", !.worker = @ \ { job }]
    /\ UNCHANGED << singletonVars, req, args, pc, lastIndex >>

\* The loop is over: the attempts are scored and the result is returned
\* (ocr-server.ts 169-250, ocr-core.ts 106-150).
ReturnResult(q) ==
    /\ ret.calls[q].pc = "loop"
    /\ ret.calls[q].issued = Len(ret.calls[q].angles)
    /\ ret.worker \cap { << q, a >> : a \in Angles } = {}
    /\ ret' = [ret EXCEPT !.calls[q].pc = "done"]
    /\ UNCHANGED << singletonVars, req, args, pc, lastIndex >>

NextRotations ==
    \E q \in Requests :
        \/ ReadImage(q)
        \/ IssueRecognize(q)
        \/ RecognizeResolves(q)
        \/ RecognizeRejects(q)
        \/ ReturnResult(q)

SpecRotations == InitRotations /\ [][NextRotations]_vars

SpecConcurrent == InitConcurrent /\ [][NextRotations]_vars

\* The jobs of a call in flight on the worker.
JobsOf(q) == { job \in ret.worker : job[1] = q }

\* C19: within one processWithRotations call the recognitions are issued
\* one after another in the order of the candidate angles: a recognition
\* starts only after the previous one has completed, and when the call
\* returns exactly one attempt is recorded per candidate angle.
C19_SequentialInAngleOrder ==
    LET call == ret.calls[1]
    IN /\ Cardinality(JobsOf(1)) <= 1
       /\ call.issued - Len(call.attempts) \in { 0, 1 }
       /\ \A job \in JobsOf(1) :
              /\ call.issued = Len(call.attempts) + 1
              /\ job[2] = call.angles[call.issued]
       /\ \A k \in 1..Len(call.attempts) : call.attempts[k].angle = call.angles[k]
       /\ call.pc = "done" =>
              /\ Len(call.attempts) = Len(call.angles)
              /\ JobsOf(1) = {}

\* The call has returned with the four attempts in the order 0, 90, 180, 270.
C19_Witness ==
    /\ ret.calls[1].pc = "done"
    /\ ret.calls[1].angles = ROTATION_ANGLES
    /\ [k \in 1..4 |-> ret.calls[1].attempts[k].angle] = ROTATION_ANGLES

\* C20: at any time at most one recognize call is in flight on the shared
\* Tesseract worker, also when two requests run processImageServerSide
\* concurrently on the singleton processor.
C20_OneRecognizeInFlight == Cardinality(ret.worker) <= 1

\* Each request for itself has at most one recognition in flight.
C20_OnePerRequest == \A q \in Requests : Cardinality(JobsOf(q)) <= 1

\* The recognitions at 0 degrees of both requests are in flight together.
C20_TwoInFlight == ret.worker = { << 1, 0 >>, << 2, 0 >> }

\* C21: the status, found value and confidence returned by matchNetContents
\* depend only on the expected string and the OCR text: with a raw OCR
\* tree they are those of the call without one.
C21_RawChangesBoxesOnly ==
    \A i \in 1..Len(ret) :
        /\ ret[i].status = matchNetContents(args.expected, args.ocrText).status
        /\ ret[i].found = matchNetContents(args.expected, args.ocrText).found
        /\ ret[i].confidence = matchNetContents(args.expected, args.ocrText).confidence

\* With the patterns at rest and a raw tree, the call does not detect the
\* volume that the call without a raw tree verifies.
C21_RawLosesMatch ==
    /\ Len(ret) = 1
    /\ ret[1].status = "not_found"
    /\ matchNetContents(args.expected, args.ocrText).status = "match"

(***************************************************************************)
(* src/lib/ocr-server.ts, src/lib/ocr-core.ts: the orientation score, the  *)
(* choice of the primary attempt and the merge of the attempts.  A score   *)
(* is the fraction num / den with den > 0, so that scores are compared     *)
(* without rounding.                                                       *)
(***************************************************************************)

\* MIN_WORD_CONFIDENCE (ocr-server.ts 15, ocr-core.ts 18)
MIN_WORD_CONFIDENCE == 60

Fraction(num, den) == [num |-> num, den |-> den]
Less(x, y) == x.num * y.den < y.num * x.den
Same(x, y) == x.num * y.den = y.num * x.den

\* extractWordsFromBlocks_Unfiltered: every word of the tree is kept.
extractWordsFromBlocks_Unfiltered(rawWords) ==
    [k \in 1..Len(rawWords) |->
        [text |-> Trim(rawWords[k].text), confidence |-> rawWords[k].confidence]]

\* extractWordsFromBlocks (ocr-server.ts 319-333): rawWords are the words
\* of the blocks, paragraphs and lines, in order.
extractWordsFromBlocks(rawWords) ==
    LET Kept(word) == Len(Trim(word.text)) > 0 /\ word.confidence >= MIN_WORD_CONFIDENCE
        kept == SelectSeq(rawWords, Kept)
    IN [k \in 1..Len(kept) |->
           [text |-> Trim(kept[k].text), confidence |-> kept[k].confidence]]

\* word.replace(/[^\w]/g, "")
CleanWord(word) == SelectSeq(word, IsWordChar)

IsAlphanumericChar(c) == IsLetter(c) \/ IsDigit(c)

\* /^[a-zA-Z]+$/, /^[a-zA-Z0-9]+$/ and /^[0-9]+$/ on cleanWord: the second
\* covers the other two.
IsAlphanumeric(cleanWord) ==
    Len(cleanWord) > 0 /\ \A i \in 1..Len(cleanWord) : IsAlphanumericChar(cleanWord[i])

\* /^\d+%$/
IsPercentage(word) ==
    /\ Len(word) >= 2
    /\ word[Len(word)] = "%"
    /\ \A i \in 1..(Len(word) - 1) : IsDigit(word[i])

\* The units of /^\d+(\.\d+)?\s*(ml|mL|oz|fl\.?\s*oz|L|l)$/i
ScoreUnits ==
    { << "m", "l" >>, << "o", "z" >>, << "f", "l", "o", "z" >>,
      << "f", "l", ".", "o", "z" >>, << "l" >> }

\* /^\d+(\.\d+)?\s*(ml|mL|oz|fl\.?\s*oz|L|l)$/i on a token, which holds no
\* white space.
IsVolume(word) ==
    /\ Len(word) > 0
    /\ IsDigit(word[1])
    /\ \E e \in { StrictNumberEnd(word, 1), DigitsEnd(word, 1) } :
          ToLowerCase(SubSeq(word, e, Len(word))) \in ScoreUnits

ConsonantChars ==
    { "b", "c", "d", "e", "f", "g", "h", "j", "k", "l", "m", "n", "o", "p", "q",
      "r", "s", "t", "u", "v", "w", "x", "y", "z" }

VowelChars == { "a", "e", "i", "o", "u" }

\* isNoise (ocr-server.ts 394-397)
IsNoise(cleanWord) ==
    \/ \A i \in 1..Len(cleanWord) : ~IsAlphanumericChar(cleanWord[i])
    \/ /\ Len(cleanWord) \in 1..2
       /\ \A i \in 1..Len(cleanWord) : LowerChar(cleanWord[i]) \in ConsonantChars
    \/ /\ Len(cleanWord) \in 1..2
       /\ \A i \in 1..Len(cleanWord) : LowerChar(cleanWord[i]) \in VowelChars

\* The branch of the loop body that a token takes (ocr-server.ts 379-409).
TokenClass(word) ==
    IF Len(CleanWord(word)) = 0 THEN "skipped"
    ELSE IF IsAlphanumeric(CleanWord(word)) \/ IsPercentage(word) \/ IsVolume(word)
         THEN "valid"
    ELSE IF IsNoise(CleanWord(word)) THEN "noise"
    ELSE "other"

\* The tokens of the text: text.split(/\s+/).filter(word => word.length > 0)
TokensOf(text) == LET NonEmpty(w) == Len(w) > 0 IN SelectSeq(Split(text), NonEmpty)

CountClass(words, class) ==
    Cardinality({ k \in 1..Len(words) : TokenClass(words[k]) = class })

RECURSIVE SumConfidence(_)
SumConfidence(blocks) ==
    IF Len(blocks) = 0 THEN 0
    ELSE blocks[1].confidence + SumConfidence(Tail(blocks))

\* The score from the counts: validRatio * 10 - noiseRatio * 5, the bonus,
\* the penalty and the clamp (ocr-server.ts 412-431), times the number n
\* of tokens.
PatternScoreFrom(valid, noise, n, sum, len) ==
    LET base == 10 * valid - 5 * noise
        bonus == IF 10 * valid > 7 * n /\ sum > 60 * len THEN 5 * n ELSE 0
        penalty == IF sum < 30 * len THEN 10 * n ELSE 0
    IN Fraction(Max(-10 * n, Min(20 * n, base + bonus - penalty)), n)

\* calculatePatternScore (ocr-server.ts 364-432)
calculatePatternScore(text, blocks) ==
    IF Len(Trim(text)) = 0 \/ Len(blocks) = 0 THEN Fraction(0, 1)
    ELSE IF Len(TokensOf(text)) = 0 THEN Fraction(0, 1)
    ELSE CHOOSE r \in
             { PatternScoreFrom(CountClass(words, "valid"), CountClass(words, "noise"),
                                Len(words), SumConfidence(blocks), Len(blocks)) :
                   words \in { TokensOf(text) } } : TRUE

\* calculateOrientationScore (ocr-server.ts 339-358):
\* wordCount * (confidence / 100) + patternScore
calculateOrientationScore(attempt) ==
    CHOOSE r \in
        { Fraction(attempt.wordCount * attempt.confidence * p.den + 100 * p.num, 100 * p.den) :
              p \in { calculatePatternScore(attempt.text, attempt.blocks) } } : TRUE

\* One step of the reduce of ServerOCRProcessor (ocr-server.ts 176-184).
BetterOf(best, current) ==
    IF Less(best.score, current.score) THEN current
    ELSE IF Same(current.score, best.score)
         THEN (IF current.confidence > best.confidence THEN current ELSE best)
    ELSE best

\* scoredAttempts.reduce(...) without an initial value.
RECURSIVE ReduceScored(_, _, _)
ReduceScored(scored, k, best) ==
    IF k > Len(scored) THEN best
    ELSE ReduceScored(scored, k + 1, BetterOf(best, scored[k]))

\* One step of the reduce of OCRProcessor (ocr-core.ts 106-109).
MoreWordsOf(best, current) ==
    IF current.wordCount > best.wordCount THEN current ELSE best

RECURSIVE ReduceByWordCount(_, _, _)
ReduceByWordCount(attempts, k, best) ==
    IF k > Len(attempts) THEN best
    ELSE ReduceByWordCount(attempts, k + 1, MoreWordsOf(best, attempts[k]))

\* scoredAttempts (ocr-server.ts 170-173)
ScoredAttempts(attempts) ==
    [k \in 1..Len(attempts) |->
        [angle |-> attempts[k].angle, confidence |-> attempts[k].confidence,
         wordCount |-> attempts[k].wordCount,
         score |-> calculateOrientationScore(attempts[k])]]

\* primaryAttempt of the two processors.
PrimaryAttempt(processor, attempts) ==
    IF processor = "ServerOCRProcessor"
    THEN ReduceScored(ScoredAttempts(attempts), 2, ScoredAttempts(attempts)[1])
    ELSE ReduceByWordCount(ScoredAttempts(attempts), 2, ScoredAttempts(attempts)[1])

\* Array.prototype.join("\n\n")
RECURSIVE JoinBlankLine(_)
JoinBlankLine(texts) ==
    IF Len(texts) = 0 THEN << >>
    ELSE IF Len(texts) = 1 THEN texts[1]
    ELSE texts[1] \o << "\n", "\n" >> \o JoinBlankLine(Tail(texts))

\* allText (ocr-server.ts 187-190, ocr-core.ts 112-115)
AllText(attempts) ==
    LET NonEmpty(text) == Len(text) > 0
    IN JoinBlankLine(SelectSeq([k \in 1..Len(attempts) |-> Trim(attempts[k].text)], NonEmpty))

\* attempts.flatMap(a => a.blocks)
RECURSIVE AllBlocks(_)
AllBlocks(attempts) ==
    IF Len(attempts) = 0 THEN << >>
    ELSE attempts[1].blocks \o AllBlocks(Tail(attempts))

\* The attempt pushed for an angle from the data of the recognition
\* (ocr-server.ts 144-159, ocr-core.ts 84-99).
AttemptOf(angle, data) ==
    [angle |-> angle, text |-> data.text,
     blocks |-> extractWordsFromBlocks(data.words),
     confidence |-> data.confidence,
     wordCount |-> Len(extractWordsFromBlocks(data.words)),
     rawResult |-> data]

\* The result returned after the loop (ocr-server.ts 169-229,
\* ocr-core.ts 105-150); confidence is the fraction sum / attempts.length.
ResultOfAttempts(processor, attempts, rotationAngles, imageWidth, imageHeight) ==
    [text |-> AllText(attempts),
     confidence |-> Fraction(SumConfidence(attempts), Len(attempts)),
     blocks |-> AllBlocks(attempts),
     primaryAngle |-> PrimaryAttempt(processor, attempts).angle,
     rotationCandidatesDegrees |-> rotationAngles,
     allRotationResults |->
         [k \in 1..Len(attempts) |->
             [angle |-> attempts[k].angle, result |-> attempts[k].rawResult]],
     imageWidth |-> imageWidth,
     imageHeight |-> imageHeight]

RawWord(text, confidence) == [text |-> text, confidence |-> confidence]

\* The data of a recognition: the text, the words of the tree and the
\* confidence of the page.
Recognitions ==
    { [text |-> << >>, words |-> << >>, confidence |-> 0],
      [text |-> << "N", "E", "T", " ", "7", "5", "0", "m", "L", "\n" >>,
       words |-> << RawWord(<< "N", "E", "T" >>, 90),
                    RawWord(<< "7", "5", "0", "m", "L" >>, 90) >>,
       confidence |-> 90],
      [text |-> << "b", "c", " ", "a", "e", "\n" >>,
       words |-> << RawWord(<< "b", "c" >>, 90), RawWord(<< "a", "e" >>, 90) >>,
       confidence |-> 90],
      [text |-> << "_", " ", "_", "_", " ", "_", "\n" >>,
       words |-> << RawWord(<< "_" >>, 60), RawWord(<< "_", "_" >>, 60),
                    RawWord(<< "_" >>, 60) >>,
       confidence |-> 60],
      [text |-> << " ", "1", "2", "%", " ", "A", "L", "C", "\n" >>,
       words |-> << RawWord(<< "1", "2", "%" >>, 95), RawWord(<< "A", "L", "C" >>, 40),
                    RawWord(<< " " >>, 80) >>,
       confidence |-> 70],
      [text |-> << "x", "\n" >>,
       words |-> << RawWord(<< "x" >>, 50) >>,
       confidence |-> 50] }

Processors == { "ServerOCRProcessor", "OCRProcessor" }

\* The angles of a processor (ocr-server.ts 124, ocr-core.ts 55).
AnglesOf(processor) ==
    IF processor = "ServerOCRProcessor" THEN { ROTATION_ANGLES } ELSE AngleSets

ImageSizes == { << 1, 2 >>, << 2, 1 >> }

\* The recognitions of one call, one per angle, and the size of the image.
OrientationInputs ==
    { [processor |-> p, rotationAngles |-> angles, data |-> data,
       imageWidth |-> size[1], imageHeight |-> size[2]] :
          p \in Processors, angles \in AngleSets, size \in ImageSizes,
          data \in UNION { [1..n -> Recognitions] : n \in { 2, 4 } } }

InitOrientation ==
    /\ IdleSingleton /\ IdleReq /\ IdleRegExp
    /\ args \in { i \in OrientationInputs :
                     /\ i.rotationAngles \in AnglesOf(i.processor)
                     /\ Len(i.data) = Len(i.rotationAngles) }
    /\ ret = << >>
    /\ pc = {}

\* The part of processWithRotations after the loop: the attempts are
\* scored, the primary attempt chosen and the result merged.
ScoreAndMerge ==
    /\ pc = {}
    /\ ret' = [attempts |->
                  [k \in 1..Len(args.data) |-> AttemptOf(args.rotationAngles[k], args.data[k])],
               result |->
                  ResultOfAttempts(args.processor,
                      [k \in 1..Len(args.data) |-> AttemptOf(args.rotationAngles[k], args.data[k])],
                      args.rotationAngles, args.imageWidth, args.imageHeight)]
    /\ pc' = {"merged"}
    /\ UNCHANGED << singletonVars, req, args, lastIndex >>

NextOrientation == ScoreAndMerge

SpecOrientation == InitOrientation /\ [][NextOrientation]_vars

\* The orientation score of the attempt at an index.
ScoreAt(k) == calculateOrientationScore(ret.attempts[k])

\* The index of the primary attempt.
IsPrimary(k) == ret.attempts[k].angle = ret.result.primaryAngle

MaximalScore(k) == \A j \in 1..Len(ret.attempts) : ~Less(ScoreAt(k), ScoreAt(j))

PrimaryIsBest ==
    \E k \in 1..Len(ret.attempts) :
        /\ IsPrimary(k)
        /\ MaximalScore(k)
        /\ \A j \in 1..Len(ret.attempts) :
               MaximalScore(j) => ret.attempts[j].confidence <= ret.attempts[k].confidence

\* C22: the primary attempt is one of the attempted angles, its
\* orientation score is maximal among the attempts, and among the attempts
\* with the maximal score it has the highest confidence, for
\* ServerOCRProcessor and for OCRProcessor.
C22_PrimaryIsBest == pc = {"merged"} => PrimaryIsBest

\* The same for ServerOCRProcessor alone.
C22_ServerPrimaryIsBest ==
    (pc = {"merged"} /\ args.processor = "ServerOCRProcessor") => PrimaryIsBest

\* OCRProcessor takes the attempt with the most words, whose score is not
\* the highest.
C22_MostWordsNotBest ==
    /\ pc = {"merged"}
    /\ args.processor = "OCRProcessor"
    /\ \E k \in 1..Len(ret.attempts) :
          /\ IsPrimary(k)
          /\ \E j \in 1..Len(ret.attempts) :
                /\ Less(ScoreAt(k), ScoreAt(j))
                /\ ret.attempts[j].wordCount < ret.attempts[k].wordCount

\* The horizontal gap between two boxes: 0 when they overlap horizontally.
HorizontalGap(a, b) == Max(0, Max(b.x0 - a.x1, a.x0 - b.x1))

\* The loop of mergeBBoxes as the claim states it: a box joins the running
\* box exactly when the tops differ by at most threshold and the gap, on
\* either side, is at most threshold.
RECURSIVE StatedMergeLoop(_, _, _, _, _)
StatedMergeLoop(sorted, i, current, merged, threshold) ==
    IF i > Len(sorted) THEN Append(merged, current)
    ELSE IF /\ Abs(sorted[i].y0 - current.y0) <= threshold
            /\ HorizontalGap(current, sorted[i]) <= threshold
         THEN StatedMergeLoop(sorted, i + 1,
                  Box(Min(current.x0, sorted[i].x0), Min(current.y0, sorted[i].y0),
                      Max(current.x1, sorted[i].x1), Max(current.y1, sorted[i].y1)),
                  merged, threshold)
         ELSE StatedMergeLoop(sorted, i + 1, sorted[i], Append(merged, current), threshold)

StatedMerge(boxes, threshold) ==
    IF Len(boxes) <= 1 THEN boxes
    ELSE StatedMergeLoop(SortBoxes(boxes), 2, SortBoxes(boxes)[1], << >>, threshold)

\* C23: mergeBBoxes merges a box into the running box if and only if their
\* tops differ by at most threshold and the horizontal gap between them is
\* at most threshold: a box of the same line farther than threshold, to the
\* right or to the left, is not merged.
C23_MergeIffNear ==
    "merged" \in pc => ret.merged = StatedMerge(args.boxes, args.threshold)

\* With all boxes at the same top the boxes are merged as stated.
C23_SameTop ==
    ("merged" \in pc /\ \A i, j \in 1..Len(args.boxes) : args.boxes[i].y0 = args.boxes[j].y0)
        => ret.merged = StatedMerge(args.boxes, args.threshold)

\* A box is merged with a box of the same line that lies farther than
\* threshold to its right.
C23_MergedFromTheLeft ==
    /\ "merged" \in pc
    /\ args.threshold = 1
    /\ args.boxes = << Box(3, 0, 4, 1), Box(0, 1, 1, 2) >>
    /\ ret.merged = << Box(0, 0, 4, 2) >>

(***************************************************************************)
(* src/lib/ocr-core.ts: findMatchingBBoxes, the ranking of the candidates  *)
(* and the cap of the results.  A tree is the list of the lines of its     *)
(* blocks and paragraphs, each with its words.                             *)
(***************************************************************************)

MaxResults == 2         \* options.maxResults: 0 (not given) to MaxResults
MaxLines == 2           \* lines of the tree of the primary rotation

\* minConfidence = 70 (ocr-core.ts 487)
DefaultMinConfidence == 70

Candidate(bbox, score, confidence) ==
    [bbox |-> bbox, score |-> score, confidence |-> confidence,
     size |-> (bbox.x1 - bbox.x0) * (bbox.y1 - bbox.y0)]

\* Strategy 3 for one word (ocr-core.ts 547-582): the first search word of
\* three characters or more that the word equals, or holds when the search
\* word has five characters or more, gives the candidate.
WordCandidates(word, searchWords, minConfidence) ==
    LET wordText == normalizeText(word.text)
        Hit(k) == /\ Len(searchWords[k]) >= 3
                  /\ \/ wordText = searchWords[k]
                     \/ Includes(wordText, searchWords[k]) /\ Len(searchWords[k]) >= 5
        hits == { k \in 1..Len(searchWords) : Hit(k) }
    IN IF word.confidence < minConfidence \/ hits = {} THEN << >>
       ELSE LET first == CHOOSE k \in hits : \A m \in hits : k <= m
            IN << Candidate(word.bbox, IF wordText = searchWords[first] THEN 80 ELSE 60,
                            word.confidence) >>

RECURSIVE WordsCandidates(_, _, _)
WordsCandidates(words, searchWords, minConfidence) ==
    IF Len(words) = 0 THEN << >>
    ELSE WordCandidates(words[1], searchWords, minConfidence)
         \o WordsCandidates(Tail(words), searchWords, minConfidence)

\* The candidates of one line (ocr-core.ts 519-583).
LineCandidates(line, normalizedSearch, searchWords, minConfidence) ==
    IF normalizeText(line.text) = normalizedSearch
    THEN << Candidate(line.bbox, 100, line.confidence) >>
    ELSE IF Includes(normalizeText(line.text), normalizedSearch) /\ Len(searchWords) > 1
         THEN << Candidate(line.bbox, 90, line.confidence) >>
    ELSE WordsCandidates(line.words, searchWords, minConfidence)

RECURSIVE LinesCandidates(_, _, _, _)
LinesCandidates(lines, normalizedSearch, searchWords, minConfidence) ==
    IF Len(lines) = 0 THEN << >>
    ELSE LineCandidates(lines[1], normalizedSearch, searchWords, minConfidence)
         \o LinesCandidates(Tail(lines), normalizedSearch, searchWords, minConfidence)

\* The comparator of candidates.sort (ocr-core.ts 590-605).
CompareCandidates(a, b, options) ==
    IF a.score # b.score THEN b.score - a.score
    ELSE IF a.confidence # b.confidence THEN b.confidence - a.confidence
    ELSE IF options.preferLarger /\ a.size # b.size THEN b.size - a.size
    ELSE IF options.preferTop /\ a.bbox.y0 # b.bbox.y0 THEN a.bbox.y0 - b.bbox.y0
    ELSE 0

\* Array.prototype.sort is stable.
RECURSIVE InsertCandidate(_, _, _)
InsertCandidate(sorted, c, options) ==
    IF Len(sorted) = 0 THEN << c >>
    ELSE IF CompareCandidates(sorted[Len(sorted)], c, options) <= 0
         THEN Append(sorted, c)
         ELSE Append(InsertCandidate(SubSeq(sorted, 1, Len(sorted) - 1), c, options),
                     sorted[Len(sorted)])

RECURSIVE SortCandidates(_, _)
SortCandidates(candidates, options) ==
    IF Len(candidates) = 0 THEN << >>
    ELSE InsertCandidate(SortCandidates(SubSeq(candidates, 1, Len(candidates) - 1), options),
                         candidates[Len(candidates)], options)

\* maxResults ? candidates.slice(0, maxResults) : candidates
\* (ocr-core.ts 608): 0 and undefined both keep every candidate.
TopResults(candidates, maxResults) ==
    IF maxResults # 0 THEN SubSeq(candidates, 1, Min(maxResults, Len(candidates)))
    ELSE candidates

\* The candidates of findMatchingBBoxes after the sort and the slice.
RankedCandidates(searchText, lines, options) ==
    CHOOSE r \in
        { TopResults(SortCandidates(
              LinesCandidates(lines, n, SelectSeq(Split(n), LAMBDA w : Len(w) > 0),
                              options.minConfidence), options), options.maxResults) :
              n \in { normalizeText(searchText) } } : TRUE

\* findMatchingBBoxes (ocr-core.ts 475-610)
findMatchingBBoxes(searchText, lines, options) ==
    [k \in 1..Len(RankedCandidates(searchText, lines, options)) |->
        RankedCandidates(searchText, lines, options)[k].bbox]

\* findBBoxesAcrossRotations with the search in every rotation
\* (ocr-core.ts 895-917).
FindAcrossRotations(searchText, allRotationResults, imageWidth, imageHeight, options) ==
    findBBoxesAcrossRotations(
        [k \in 1..Len(allRotationResults) |->
            [angle |-> allRotationResults[k].angle,
             boxes |-> findMatchingBBoxes(searchText, allRotationResults[k].lines, options)]],
        imageWidth, imageHeight)

TreeWord(text, confidence, bbox) == [text |-> text, confidence |-> confidence, bbox |-> bbox]

TreeLine(text, confidence, bbox, words) ==
    [text |-> text, confidence |-> confidence, bbox |-> bbox, words |-> words]

SearchText == << "S", "t", "o", "n", "e", " ", "C", "r", "e", "e", "k" >>

StoneChars == << "S", "t", "o", "n", "e" >>
CreekChars == << "C", "r", "e", "e", "k" >>
RyeChars == << "R", "y", "e" >>

\* Lines that a label may show.
TreeLines ==
    { TreeLine(SearchText, 90, Box(0, 0, 2, 1),
               << TreeWord(StoneChars, 90, Box(0, 0, 1, 1)),
                  TreeWord(CreekChars, 90, Box(1, 0, 2, 1)) >>),
      TreeLine(SearchText \o << " " >> \o RyeChars, 80, Box(0, 1, 3, 2),
               << TreeWord(StoneChars, 80, Box(0, 1, 1, 2)),
                  TreeWord(CreekChars, 80, Box(1, 1, 2, 2)),
                  TreeWord(RyeChars, 80, Box(2, 1, 3, 2)) >>),
      TreeLine(StoneChars \o << " " >> \o RyeChars, 85, Box(0, 2, 2, 3),
               << TreeWord(StoneChars, 95, Box(0, 2, 1, 3)),
                  TreeWord(RyeChars, 75, Box(1, 2, 2, 3)) >>),
      TreeLine(CreekChars, 95, Box(0, 0, 2, 2),
               << TreeWord(CreekChars, 95, Box(0, 0, 2, 2)) >>),
      TreeLine(StoneChars \o << "w", "a", "l", "l" >>, 95, Box(0, 1, 1, 2),
               << TreeWord(StoneChars \o << "w", "a", "l", "l" >>, 95, Box(0, 1, 1, 2)) >>),
      TreeLine(CreekChars \o << "." >>, 60, Box(0, 3, 1, 4),
               << TreeWord(CreekChars \o << "." >>, 60, Box(0, 3, 1, 4)) >>),
      TreeLine(StoneChars, 95, Box(1, 0, 2, 1),
               << TreeWord(StoneChars, 95, Box(1, 0, 2, 1)) >>) }

Trees(n) == UNION { [1..k -> TreeLines] : k \in 0..n }

MatchOptions ==
    [minConfidence : { DefaultMinConfidence }, preferLarger : BOOLEAN,
     preferTop : BOOLEAN, maxResults : 0..MaxResults]

\* The search text, the trees of the rotations 0 and 90 of a 4 by 4 image
\* and the options.
RankingInputs ==
    { [searchText |-> SearchText,
       allRotationResults |-> << [angle |-> 0, lines |-> t0], [angle |-> 90, lines |-> t90] >>,
       imageWidth |-> 4, imageHeight |-> 4, options |-> o] :
          t0 \in Trees(MaxLines), t90 \in Trees(1), o \in MatchOptions }

InitRanking ==
    /\ IdleSingleton /\ IdleReq /\ IdleRegExp
    /\ args \in RankingInputs
    /\ ret = [ranked |-> << >>, matching |-> << >>, across |-> << >>]
    /\ pc = {}

\* findMatchingBBoxes on the tree of the primary rotation
\* (textMatching.ts 221).
FindMatching ==
    /\ "matching" \notin pc
    /\ ret' = [ret EXCEPT
                 !.ranked = RankedCandidates(args.searchText,
                                args.allRotationResults[1].lines, args.options),
                 !.matching = findMatchingBBoxes(args.searchText,
                                args.allRotationResults[1].lines, args.options)]
    /\ pc' = pc \cup {"matching"}
    /\ UNCHANGED << singletonVars, req, args, lastIndex >>

\* findBBoxesAcrossRotations on the trees of all rotations
\* (textMatching.ts 929).
FindAcross ==
    /\ "across" \notin pc
    /\ ret' = [ret EXCEPT
                 !.across = FindAcrossRotations(args.searchText, args.allRotationResults,
                                args.imageWidth, args.imageHeight, args.options)]
    /\ pc' = pc \cup {"across"}
    /\ UNCHANGED << singletonVars, req, args, lastIndex >>

NextRanking ==
    \/ FindMatching
    \/ FindAcross

SpecRanking == InitRanking /\ [][NextRanking]_vars

\* a is ranked before b or with it: score descending, then confidence
\* descending, then area descending when preferLarger, then top ascending
\* when preferTop.
RankedBefore(a, b) ==
    \/ a.score > b.score
    \/ /\ a.score = b.score
       /\ \/ a.confidence > b.confidence
          \/ /\ a.confidence = b.confidence
             /\ \/ args.options.preferLarger /\ a.size > b.size
                \/ /\ args.options.preferLarger => a.size = b.size
                   /\ args.options.preferTop => a.bbox.y0 <= b.bbox.y0

Ranked == \A i \in 1..Len(ret.ranked) : \A j \in i..Len(ret.ranked) :
              RankedBefore(ret.ranked[i], ret.ranked[j])

MaxResultsGiven == args.options.maxResults # 0

\* C24: findMatchingBBoxes returns its candidates in the order of the
\* ranking and, when maxResults is given, neither findMatchingBBoxes nor
\* findBBoxesAcrossRotations returns more than maxResults boxes.
C24_RankedAndCapped ==
    /\ "matching" \in pc =>
           /\ Ranked
           /\ MaxResultsGiven => Len(ret.matching) <= args.options.maxResults
    /\ ("across" \in pc /\ MaxResultsGiven) => Len(ret.across) <= args.options.maxResults

\* The same for findMatchingBBoxes alone.
C24_MatchingRankedAndCapped ==
    "matching" \in pc =>
        /\ Ranked
        /\ MaxResultsGiven => Len(ret.matching) <= args.options.maxResults

\* With maxResults 1 the search across the rotations returns two boxes.
C24_AcrossExceedsCap ==
    /\ "across" \in pc
    /\ args.options.maxResults = 1
    /\ Len(ret.across) = 2

\* The words of the recognitions from index k on that have a text and a
\* confidence of 60 or more, trimmed.
RECURSIVE ReadableWords(_, _)
ReadableWords(data, k) ==
    IF k > Len(data) THEN << >>
    ELSE LET Readable(w) == Trim(w.text) # << >> /\ w.confidence >= 60
             kept == SelectSeq(data[k].words, Readable)
         IN [i \in 1..Len(kept) |-> [text |-> Trim(kept[i].text),
                                     confidence |-> kept[i].confidence]]
            \o ReadableWords(data, k + 1)

\* The trimmed texts of the recognitions from index k on that are not
\* empty, each followed by a blank line.
RECURSIVE TextsWithBlankLines(_, _)
TextsWithBlankLines(data, k) ==
    IF k > Len(data) THEN << >>
    ELSE (IF Trim(data[k].text) = << >> THEN << >>
          ELSE Trim(data[k].text) \o << "\n", "\n" >>)
         \o TextsWithBlankLines(data, k + 1)

RECURSIVE SumOfConfidences(_, _)
SumOfConfidences(data, k) ==
    IF k > Len(data) THEN 0 ELSE data[k].confidence + SumOfConfidences(data, k + 1)

\* C25: the result of processWithRotations has the trimmed non-empty texts
\* of the attempts joined by a blank line in angle order, the words of all
\* attempts in order (each with a text and a confidence of 60 or more), the
\* mean of the attempts' confidences, one raw result per attempted angle
\* and the width and height of the source image.
C25_MergedResult ==
    pc = {"merged"} =>
        /\ ret.result.text \o (IF ret.result.text = << >> THEN << >> ELSE << "\n", "\n" >>)
               = TextsWithBlankLines(args.data, 1)
        /\ ret.result.blocks = ReadableWords(args.data, 1)
        /\ ret.result.confidence.den = Len(args.rotationAngles)
        /\ ret.result.confidence.num = SumOfConfidences(args.data, 1)
        /\ Len(ret.result.allRotationResults) = Len(args.rotationAngles)
        /\ \A k \in 1..Len(args.rotationAngles) :
               /\ ret.result.allRotationResults[k].angle = args.rotationAngles[k]
               /\ ret.result.allRotationResults[k].result = args.data[k]
        /\ ret.result.imageWidth = args.imageWidth
        /\ ret.result.imageHeight = args.imageHeight

\* Four attempts are merged: two of them have a text, one of these has a
\* word below the confidence of 60 and a word without text.
C25_Witness ==
    /\ pc = {"merged"}
    /\ Len(args.data) = 4
    /\ args.data[1].confidence = 70
    /\ args.data[2].text = << >>
    /\ args.data[3].confidence = 90
    /\ args.data[4].text = << >>
    /\ Len(ret.result.blocks) = 3
    /\ Len(ret.result.text) = 7 + 2 + 9

\* calculatePatternScore of the attempt at an index.
PatternScoreAt(k) == calculatePatternScore(ret.attempts[k].text, ret.attempts[k].blocks)

\* A token that is a run of one or two consonants or of one or two vowels.
ShortRun(word) ==
    /\ Len(word) \in 1..2
    /\ \/ \A i \in 1..Len(word) :
              IsLetter(word[i]) /\ LowerChar(word[i]) \notin { "a", "e", "i", "o", "u" }
       \/ \A i \in 1..Len(word) : LowerChar(word[i]) \in { "a", "e", "i", "o", "u" }

\* A token that is a word of three letters or more, or a number with a unit.
Recognizable(word) ==
    /\ Len(word) >= 3
    /\ \A i \in 1..Len(word) : IsLetter(word[i]) \/ IsDigit(word[i])

OnlyShortRuns(k) ==
    /\ TokensOf(ret.attempts[k].text) # << >>
    /\ \A i \in 1..Len(TokensOf(ret.attempts[k].text)) :
           ShortRun(TokensOf(ret.attempts[k].text)[i])

OnlyRecognizable(k) ==
    /\ TokensOf(ret.attempts[k].text) # << >>
    /\ \A i \in 1..Len(TokensOf(ret.attempts[k].text)) :
           Recognizable(TokensOf(ret.attempts[k].text)[i])

SameWordConfidences(j, k) ==
    [i \in 1..Len(ret.attempts[j].blocks) |-> ret.attempts[j].blocks[i].confidence]
        = [i \in 1..Len(ret.attempts[k].blocks) |-> ret.attempts[k].blocks[i].confidence]

PatternScoreBounds ==
    \A k \in 1..Len(ret.attempts) :
        /\ ~Less(PatternScoreAt(k), Fraction(-10, 1))
        /\ ~Less(Fraction(20, 1), PatternScoreAt(k))
        /\ (Trim(ret.attempts[k].text) = << >> \/ ret.attempts[k].blocks = << >>)
               => Same(PatternScoreAt(k), Fraction(0, 1))

\* C26: a token that is a run of one or two consonants or vowels counts as
\* noise and not as a valid token, so an attempt of such tokens only has a
\* strictly lower pattern score than an attempt with the same word
\* confidences whose tokens are all recognizable words; the pattern score
\* lies in [-10, 20] and is 0 for a blank text or an empty word list.
C26_ShortRunsAreNoise ==
    pc = {"merged"} =>
        /\ PatternScoreBounds
        /\ \A k \in 1..Len(ret.attempts) : \A i \in 1..Len(TokensOf(ret.attempts[k].text)) :
               ShortRun(TokensOf(ret.attempts[k].text)[i])
                   => TokenClass(TokensOf(ret.attempts[k].text)[i]) = "noise"
        /\ \A j, k \in 1..Len(ret.attempts) :
               (OnlyShortRuns(j) /\ OnlyRecognizable(k) /\ SameWordConfidences(j, k))
                   => Less(PatternScoreAt(j), PatternScoreAt(k))

\* The bounds and the zero score alone.
C26_ScoreBounds == pc = {"merged"} => PatternScoreBounds

\* The attempt that reads 'bc ae' has the pattern score 15 of the attempt
\* that reads 'NET 750mL' with the same word confidences.
C26_ShortRunsScoreAsWords ==
    /\ pc = {"merged"}
    /\ OnlyShortRuns(1) /\ OnlyRecognizable(2) /\ SameWordConfidences(1, 2)
    /\ Same(PatternScoreAt(1), Fraction(15, 1))
    /\ Same(PatternScoreAt(2), Fraction(15, 1))

\* The request runs processOCR, which creates its own worker.
CreatesWorker == req.kind \in { "processOCR", "processOCRFromURL" }

\* The pipeline of the request has run to its end.
PipelineEnded == req.phase \in { "done", "failed" }

\* C27: every Tesseract worker created by processOCR is terminated on
\* every path: once the pipeline has ended, after a success, after a
\* failure inside processWithRotations or after the deadline, no worker it
\* created is still alive.
C27_WorkerTerminated ==
    (CreatesWorker /\ PipelineEnded) => req.worker # "alive"

\* A pipeline that returns its result has terminated the worker, also
\* when the deadline expired before.
C27_TerminatedAfterSuccess ==
    (CreatesWorker /\ req.phase = "done") => req.worker = "terminated"

\* The second recognition failed: the pipeline has ended in the catch
\* block and the worker is alive.
C27_WorkerLeftAlive ==
    /\ req.kind = "processOCR"
    /\ req.phase = "failed"
    /\ req.angleIdx = 1
    /\ req.worker = "alive"

\* The unit spellings that the volume patterns accept.
UnitSpellings ==
    { << "m", "L" >>, << "m", "l" >>,
      << "m", "i", "l", "l", "i", "l", "i", "t", "e", "r", "s" >>,
      << "o", "z" >>, << "f", "l", " ", "o", "z" >>, << "o", "u", "n", "c", "e", "s" >>,
      << "L" >>, << "l" >>, << "l", "i", "t", "e", "r" >>,
      << "l", "i", "t", "e", "r", "s" >> }

\* The numbers of the volumes, in thousandths.
ExactValues == { 500, 1000, 1200, 1500, 1750, 2000 }

\* The OCR text is the expected volume string itself, with or without a
\* blank before the unit.
ExactVolumeInputs ==
    { [expected |-> NumberToChars(Number(v)) \o blank \o u,
       ocrText |-> NumberToChars(Number(v)) \o blank \o u,
       unit |-> u] :
          v \in ExactValues, blank \in { << >>, << " " >> }, u \in UnitSpellings }

InitExactVolume ==
    /\ IdleSingleton /\ IdleReq /\ IdleRegExp
    /\ args \in ExactVolumeInputs
    /\ ret = << >>
    /\ pc = {}

SpecExactVolume == InitExactVolume /\ [][NextNetContents]_vars

\* C28: when the OCR text is exactly the expected volume string,
\* matchNetContents returns match, for every unit spelling that the volume
\* patterns accept.
C28_ExactTextMatches == pc = {"matched"} => ret.status = "match"

\* The units that parseVolume maps to a key of VOLUME_TO_ML, and
\* millilitres, match.
C28_KnownUnitsMatch ==
    (pc = {"matched"} /\ args.unit \notin { << "o", "u", "n", "c", "e", "s" >>,
                                           << "l", "i", "t", "e", "r" >>,
                                           << "l", "i", "t", "e", "r", "s" >> })
        => ret.status = "match"

\* '1.2 ounces' on the form and on the label is a mismatch.
C28_OuncesMismatch ==
    /\ pc = {"matched"}
    /\ args.expected = << "1", ".", "2", " ", "o", "u", "n", "c", "e", "s" >>
    /\ args.ocrText = args.expected
    /\ ret.status = "mismatch"

\* Initialization t completes in this step while the marker names another
\* initialization.
CompletesBesideMarker(t) ==
    /\ initState[t] = "pending"
    /\ initState'[t] # "pending"
    /\ inFlightInit # NULL
    /\ inFlightInit # t

ClearsOwnMarkerOnly ==
    \A t \in InitIds : CompletesBesideMarker(t) => inFlightInit' = inFlightInit

\* C29: the completion of an initialization clears the in-flight marker
\* only when the marker is its own: when resetServerOCRProcessor was called
\* while an initialization was in flight and a second one has started, the
\* completion of the first leaves the marker of the second in place.
C29_ClearsOwnMarkerOnly == [][ClearsOwnMarkerOnly]_vars

\* Without a reset the marker names the initialization that completes.
C29_WithoutReset == [][resets = 0 => ClearsOwnMarkerOnly]_vars

(***************************************************************************)
(* src/lib/ocr-server.ts: one ServerOCRProcessor, its field worker and the *)
(* calls of processWithRotations and terminate on it.  ret.worker is the   *)
(* field (NULL or the number of a worker), ret.live the workers created    *)
(* and not terminated.                                                     *)
(***************************************************************************)

MaxTerminates == 1      \* calls of terminate() on the instance

FreshInstance ==
    [worker |-> NULL, created |-> 0, live |-> {}, initializeWorkerCalls |-> 0,
     terminates |-> 0, terminating |-> NULL,
     calls |-> [q \in Requests |-> [pc |-> "idle", cleaning |-> NULL]]]

InitInstance ==
    /\ IdleSingleton /\ IdleReq /\ IdleRegExp
    /\ args = << >>
    /\ ret = FreshInstance
    /\ pc = {}

\* processWithRotations or processSingleRotation up to its first await
\* (ocr-server.ts 102-109, 235-242): without a worker initializeWorker is
\* called, which runs up to `await createWorker(...)` (38-58).
EnterProcess(q) ==
    /\ ret.calls[q].pc = "idle"
    /\ ret' = IF ret.worker = NULL
              THEN [ret EXCEPT !.calls[q].pc = "createWorker",
                               !.initializeWorkerCalls = @ + 1]
              ELSE [ret EXCEPT !.calls[q].pc = "process"]
    /\ UNCHANGED << singletonVars, req, args, pc, lastIndex >>

\* createWorker resolves: the worker is assigned to the field and
\* setParameters is called (ocr-server.ts 58-64).
CreateWorkerResolves(q) ==
    /\ ret.calls[q].pc = "createWorker"
    /\ ret' = [ret EXCEPT !.calls[q].pc = "setParameters",
                          !.created = @ + 1,
                          !.live = @ \cup { ret.created + 1 },
                          !.worker = ret.created + 1]
    /\ UNCHANGED << singletonVars, req, args, pc, lastIndex >>

\* The catch block of initializeWorker (ocr-server.ts 67-95): a worker in
\* the field is terminated and the field cleared, then the error is thrown.
CatchInInitializeWorker(q) ==
    IF ret.worker # NULL
    THEN [ret EXCEPT !.calls[q].pc = "cleanup", !.calls[q].cleaning = ret.worker]
    ELSE [ret EXCEPT !.calls[q].pc = "failed"]

\* createWorker or setParameters rejects.
InitializationRejects(q) ==
    /\ ret.calls[q].pc \in { "createWorker", "setParameters" }
    /\ ret' = CatchInInitializeWorker(q)
    /\ UNCHANGED << singletonVars, req, args, pc, lastIndex >>

\* The terminate of the catch block has settled (ocr-server.ts 78-87).
CleanupSettles(q) ==
    /\ ret.calls[q].pc = "cleanup"
    /\ \E terminated \in BOOLEAN :
          ret' = [ret EXCEPT !.calls[q].pc = "failed",
                             !.live = IF terminated THEN @ \ { ret.calls[q].cleaning } ELSE @,
                             !.worker = NULL]
    /\ UNCHANGED << singletonVars, req, args, pc, lastIndex >>

\* setParameters resolves: initializeWorker returns and the call goes on
\* (ocr-server.ts 61-66, 107-109).
SetParametersResolves(q) ==
    /\ ret.calls[q].pc = "setParameters"
    /\ ret' = [ret EXCEPT !.calls[q].pc = IF ret.worker = NULL THEN "failed" ELSE "process"]
    /\ UNCHANGED << singletonVars, req, args, pc, lastIndex >>

\* The call runs its recognitions and returns.
ProcessReturns(q) ==
    /\ ret.calls[q].pc = "process"
    /\ ret' = [ret EXCEPT !.calls[q].pc = "done"]
    /\ UNCHANGED << singletonVars, req, args, pc, lastIndex >>

\* terminate() up to its await (ocr-server.ts 298-301).
TerminateCalled ==
    /\ ret.terminates < MaxTerminates
    /\ ret.terminating = NULL
    /\ ret.worker # NULL
    /\ ret' = [ret EXCEPT !.terminates = @ + 1, !.terminating = ret.worker]
    /\ UNCHANGED << singletonVars, req, args, pc, lastIndex >>

\* worker.terminate() has settled: the field is cleared (ocr-server.ts 301-308).
TerminateSettles ==
    /\ ret.terminating # NULL
    /\ \E terminated \in BOOLEAN :
          ret' = [ret EXCEPT !.terminating = NULL,
                             !.live = IF terminated THEN @ \ { ret.terminating } ELSE @,
                             !.worker = NULL]
    /\ UNCHANGED << singletonVars, req, args, pc, lastIndex >>

NextInstance ==
    \/ \E q \in Requests :
          \/ EnterProcess(q)
          \/ CreateWorkerResolves(q)
          \/ InitializationRejects(q)
          \/ CleanupSettles(q)
          \/ SetParametersResolves(q)
          \/ ProcessReturns(q)
    \/ TerminateCalled
    \/ TerminateSettles

SpecInstance == InitInstance /\ [][NextInstance]_vars

\* The workers whose terminate() has been called and has not settled.
BeingTerminated ==
    { ret.terminating } \cup { ret.calls[q].cleaning : q \in { r \in Requests : ret.calls[r].pc = "cleanup" } }

NothingFailed ==
    /\ ret.terminates = 0
    /\ \A q \in Requests : ret.calls[q].pc \notin { "cleanup", "failed" }

\* C30: a ServerOCRProcessor holds at most one live worker: with
\* concurrent calls on an instance without a worker, initializeWorker runs
\* once and every worker that was created and not terminated is the one in
\* the field.
C30_OneLiveWorker ==
    /\ NothingFailed => ret.initializeWorkerCalls <= 1
    /\ NothingFailed => Cardinality(ret.live) <= 1
    /\ ret.live \subseteq ({ ret.worker } \cup BeingTerminated)

\* Two calls on a fresh instance have both returned: the first worker is
\* alive and no longer in the field.
C30_WorkerOverwritten ==
    /\ \A q \in { 1, 2 } : ret.calls[q].pc = "done"
    /\ ret.initializeWorkerCalls = 2
    /\ ret.worker = 2
    /\ ret.live = { 1, 2 }

=============================================================================
